---- MODULE Spec2Model ----
(***************************************************************************)
(* A model of the UCS configuration parser (src/ucs/config/parser.c): the  *)
(* field resolver, the apply pipeline of fill_opts, the value sources and  *)
(* the programmatic get/set surface.                                       *)
(*                                                                         *)
(* C strings are sequences of one-character strings, so that fnmatch,      *)
(* strncmp, strtok and the sub-prefix scan work on characters as the code  *)
(* does.  A slot of an opts struct is a record; the opts struct is a       *)
(* function from slot offsets to slots, so that an alias (a field with the *)
(* offset of another field) reaches the same slot as in the code.          *)
(***************************************************************************)
EXTENDS Integers, Sequences, FiniteSets, TLC

(***************************************************************************)
(* Strings                                                                 *)
(***************************************************************************)

\* The NULL pointer: a sequence that is no C string (its element is not a
\* single character).
NULL == <<"NULL">>

EMPTY == <<>>

UpperCase == <<"A","B","C","D","E","F","G","H","I","J","K","L","M",
               "N","O","P","Q","R","S","T","U","V","W","X","Y","Z">>

LowerCase == <<"a","b","c","d","e","f","g","h","i","j","k","l","m",
               "n","o","p","q","r","s","t","u","v","w","x","y","z">>

DigitChars == <<"0","1","2","3","4","5","6","7","8","9">>

tolower(c) ==
    IF \E i \in 1..26 : UpperCase[i] = c
    THEN LowerCase[CHOOSE i \in 1..26 : UpperCase[i] = c]
    ELSE c

\* strcasecmp(a, b) == 0
strcasecmp0(a, b) ==
    /\ Len(a) = Len(b)
    /\ \A i \in 1..Len(a) : tolower(a[i]) = tolower(b[i])

\* the first n characters of s, or all of s up to its terminator
strn(s, n) == SubSeq(s, 1, IF n < Len(s) THEN n ELSE Len(s))

\* strncmp(a, b, n) == 0
strncmp0(a, b, n) == strn(a, n) = strn(b, n)

IsDigit(c) == \E i \in 1..10 : DigitChars[i] = c

DigitVal(c) == (CHOOSE i \in 1..10 : DigitChars[i] = c) - 1

\* fnmatch(pattern, string, 0) == 0, for patterns over literals, '*' and '?'
RECURSIVE fnmatch0(_, _)
fnmatch0(pattern, string) ==
    IF pattern = <<>> THEN string = <<>>
    ELSE IF Head(pattern) = "*"
         THEN \/ fnmatch0(Tail(pattern), string)
              \/ (string # <<>> /\ fnmatch0(pattern, Tail(string)))
    ELSE IF string = <<>> THEN FALSE
    ELSE /\ (Head(pattern) = "?" \/ Head(pattern) = Head(string))
         /\ fnmatch0(Tail(pattern), Tail(string))

\* strtok_r over the whole string: the maximal runs of characters other than
\* the delimiter, in order (empty runs are skipped, as strtok does)
RECURSIVE strtok_all(_, _, _, _)
strtok_all(s, delim, cur, acc) ==
    IF s = <<>> THEN (IF cur = <<>> THEN acc ELSE Append(acc, cur))
    ELSE IF Head(s) = delim
         THEN strtok_all(Tail(s), delim, <<>>,
                         IF cur = <<>> THEN acc ELSE Append(acc, cur))
    ELSE strtok_all(Tail(s), delim, Append(cur, Head(s)), acc)

strtok(s, delim) == strtok_all(s, delim, <<>>, <<>>)

\* the decimal digits of a natural number
RECURSIVE DecStr(_)
DecStr(n) ==
    IF n < 10 THEN <<DigitChars[n + 1]>>
    ELSE Append(DecStr(n \div 10), DigitChars[(n % 10) + 1])

\* the leading run of decimal digits of s
RECURSIVE DigitRun(_)
DigitRun(s) ==
    IF s = <<>> \/ ~IsDigit(Head(s)) THEN <<>>
    ELSE <<Head(s)>> \o DigitRun(Tail(s))

RECURSIVE DecVal(_, _)
DecVal(digits, acc) ==
    IF digits = <<>> THEN acc
    ELSE DecVal(Tail(digits), acc * 10 + DigitVal(Head(digits)))

(***************************************************************************)
(* Status codes                                                            *)
(***************************************************************************)
UCS_OK == "UCS_OK"
UCS_ERR_NO_ELEM == "UCS_ERR_NO_ELEM"
UCS_ERR_INVALID_PARAM == "UCS_ERR_INVALID_PARAM"
UCS_ERR_NO_MEMORY == "UCS_ERR_NO_MEMORY"
\* the outcome of dereferencing NULL or SIZE_MAX: the process dies in the call
SIGSEGV == "SIGSEGV"

(***************************************************************************)
(* Parsers.  A slot holds a number n (unsigned, enum index, or a double in *)
(* units of 1/DBL_SCALE) or a heap string s; live tells whether the slot   *)
(* owns a heap block.                                                      *)
(***************************************************************************)

\* (unsigned)-1, kept as its two's-complement representative
UINT_MAX == -1

\* doubles are kept as integers in units of 10^-DblDigits
DblDigits == 4

\* the decimals "%.3f" prints
DBL_PRINT_DIGITS == 3

RECURSIVE Pow10(_)
Pow10(k) == IF k = 0 THEN 1 ELSE 10 * Pow10(k - 1)

DBL_SCALE == Pow10(DblDigits)

DBL_PRINT_SCALE == Pow10(DBL_PRINT_DIGITS)

UCS_NUMERIC_INF_STR == <<"i","n","f">>

ucs_async_mode_names ==
    << <<"s","i","g","n","a","l">>,
       <<"t","h","r","e","a","d","_","s","p","i","n","l","o","c","k">>,
       <<"t","h","r","e","a","d","_","m","u","t","e","x">>,
       <<"p","o","l","l">> >>

RawSlot == [n |-> 0, s |-> <<>>, live |-> FALSE, init |-> FALSE]

\* index of str in the list, compared without case, or -1
ucs_string_find_in_list(str, list) ==
    IF \E i \in 1..Len(list) : strcasecmp0(list[i], str)
    THEN (CHOOSE i \in 1..Len(list) :
             /\ strcasecmp0(list[i], str)
             /\ \A j \in 1..(i - 1) : ~strcasecmp0(list[j], str)) - 1
    ELSE -1

\* the value hi * 10 + d modulo 2^32 (2^32 is 429496729 * 10 + 6), as the
\* int that has the same 32 bits
RECURSIVE uint_wrap(_, _)
uint_wrap(hi, d) ==
    IF hi > 429496729 \/ (hi = 429496729 /\ d >= 6)
    THEN IF d >= 6 THEN uint_wrap(hi - 429496729, d - 6)
                   ELSE uint_wrap(hi - 429496730, d + 4)
    ELSE IF hi > 214748364 \/ (hi = 214748364 /\ d >= 8)
         THEN (hi - 429496728) * 10 + (d - 16)
         ELSE hi * 10 + d

\* the unsigned int a run of at most ten digits denotes
strtou(digits) ==
    uint_wrap(DecVal(SubSeq(digits, 1, Len(digits) - 1), 0),
              DigitVal(digits[Len(digits)]))

\* sscanf(s, "%u", &n): an optional sign and the leading digits; 0
\* conversions without a digit and EOF, -1, on an empty buffer
sscanf_u(s) ==
    LET neg    == s # <<>> /\ Head(s) = "-"
        body   == IF s # <<>> /\ Head(s) \in {"-", "+"} THEN Tail(s) ELSE s
        digits == DigitRun(body)
    IN IF s = <<>> THEN [ret |-> -1, n |-> 0]
       ELSE IF digits = <<>> THEN [ret |-> 0, n |-> 0]
       ELSE [ret |-> 1,
             n |-> IF neg THEN 0 - strtou(digits) ELSE strtou(digits)]

\* snprintf(buf, max, "%u", n): n + 2^32 for the ints below zero
snprintf_u(n) ==
    IF n >= 0 THEN DecStr(n)
    ELSE LET a  == (n + 2147483647) + 1
             lo == (a % 10) + 8
         IN Append(DecStr((a \div 10) + 214748364 + (lo \div 10)),
                   DigitChars[(lo % 10) + 1])

\* snprintf(buf, max, "%d", n)
snprintf_d(n) == IF n < 0 THEN <<"-">> \o DecStr(0 - n) ELSE DecStr(n)

\* any result of sscanf other than 1 is a failure of the parser
ucs_config_sscanf_uint(buf, slot) ==
    IF strcasecmp0(buf, UCS_NUMERIC_INF_STR)
    THEN [ret |-> 1, slot |-> [slot EXCEPT !.n = UINT_MAX, !.init = TRUE]]
    ELSE IF sscanf_u(buf).ret # 1
         THEN [ret |-> 0, slot |-> slot]
         ELSE [ret |-> 1,
               slot |-> [slot EXCEPT !.n = sscanf_u(buf).n, !.init = TRUE]]

ucs_config_sprintf_uint(slot) ==
    IF slot.n = UINT_MAX THEN UCS_NUMERIC_INF_STR ELSE snprintf_u(slot.n)

ucs_config_sscanf_enum(buf, slot, arg) ==
    LET i == ucs_string_find_in_list(buf, arg)
    IN IF i < 0 THEN [ret |-> 0, slot |-> slot]
       ELSE [ret |-> 1, slot |-> [slot EXCEPT !.n = i, !.init = TRUE]]

ucs_config_sprintf_enum(slot, arg) == arg[slot.n + 1]

\* the first k digits of the fraction, in units of 10^-k
RECURSIVE FracVal(_, _, _)
FracVal(digits, k, acc) ==
    IF k = 0 THEN acc
    ELSE IF digits = <<>> THEN FracVal(digits, k - 1, acc * 10)
    ELSE FracVal(Tail(digits), k - 1, acc * 10 + DigitVal(Head(digits)))

\* sscanf(buf, "%lf", dest) for the texts <digits>[.<digits>]
ucs_config_sscanf_double(buf, slot) ==
    LET ip   == DigitRun(buf)
        rest == SubSeq(buf, Len(ip) + 1, Len(buf))
        fp   == IF rest # <<>> /\ Head(rest) = "."
                THEN DigitRun(Tail(rest)) ELSE <<>>
    IN IF ip = <<>> /\ fp = <<>>
       THEN [ret |-> 0, slot |-> slot]
       ELSE [ret |-> 1,
             slot |-> [slot EXCEPT
                          !.n = DecVal(ip, 0) * DBL_SCALE + FracVal(fp, DblDigits, 0),
                          !.init = TRUE]]

\* zero-padded decimal of n on k digits
RECURSIVE PadDec(_, _)
PadDec(n, k) ==
    IF k = 0 THEN <<>>
    ELSE Append(PadDec(n \div 10, k - 1), DigitChars[(n % 10) + 1])

\* snprintf(buf, max, "%.3f", value): rounded to three decimals
ucs_config_sprintf_double(slot) ==
    LET unit == DBL_SCALE \div DBL_PRINT_SCALE
        t    == (slot.n + (unit \div 2)) \div unit
    IN DecStr(t \div DBL_PRINT_SCALE) \o <<".">> \o PadDec(t % DBL_PRINT_SCALE, DBL_PRINT_DIGITS)

UCS_VALUE_AUTO_STR == <<"a","u","t","o">>

\* (size_t)-1 and (size_t)-2, kept as their two's-complement representatives
UCS_ULUNITS_INF == -1

UCS_ULUNITS_AUTO == -2

ULONG_MAX_STR ==
    <<"1","8","4","4","6","7","4","4","0","7","3","7","0","9","5","5","1","6","1","5">>

ULONG_MAX_1_STR ==
    <<"1","8","4","4","6","7","4","4","0","7","3","7","0","9","5","5","1","6","1","4">>

\* sscanf(buf, "%lu", dest), for the runs of at most nine digits and for the
\* two largest values of an unsigned long
ucs_config_sscanf_ulong(buf, dest) ==
    IF DigitRun(buf) = <<>> THEN [ret |-> 0, v |-> dest]
    ELSE [ret |-> 1,
          v |-> IF DigitRun(buf) = ULONG_MAX_STR THEN -1
                ELSE IF DigitRun(buf) = ULONG_MAX_1_STR THEN -2
                ELSE DecVal(DigitRun(buf), 0)]

ucs_config_sprintf_ulong(src) ==
    IF src = -1 THEN ULONG_MAX_STR
    ELSE IF src = -2 THEN ULONG_MAX_1_STR
    ELSE DecStr(src)

ucs_config_sscanf_ulunits(buf, dest) ==
    IF strcasecmp0(buf, UCS_VALUE_AUTO_STR)
    THEN [ret |-> 1, v |-> UCS_ULUNITS_AUTO]
    ELSE IF strcasecmp0(buf, UCS_NUMERIC_INF_STR)
    THEN [ret |-> 1, v |-> UCS_ULUNITS_INF]
    ELSE ucs_config_sscanf_ulong(buf, dest)

ucs_config_sprintf_ulunits(src) ==
    IF src = UCS_ULUNITS_AUTO THEN UCS_VALUE_AUTO_STR
    ELSE IF src = UCS_ULUNITS_INF THEN UCS_NUMERIC_INF_STR
    ELSE ucs_config_sprintf_ulong(src)

\* the values of ucs_ternary_auto_value_t after UCS_NO and UCS_YES
UCS_TRY == 2

UCS_AUTO == 3

ucs_config_sscanf_bool(buf, dest) ==
    IF \/ strcasecmp0(buf, <<"y">>) \/ strcasecmp0(buf, <<"y","e","s">>)
       \/ buf = <<"o","n">> \/ buf = <<"1">>
    THEN [ret |-> 1, v |-> 1]
    ELSE IF \/ strcasecmp0(buf, <<"n">>) \/ strcasecmp0(buf, <<"n","o">>)
            \/ buf = <<"o","f","f">> \/ buf = <<"0">>
    THEN [ret |-> 1, v |-> 0]
    ELSE [ret |-> 0, v |-> dest]

ucs_config_sprintf_bool(src) == IF src # 0 THEN <<"y">> ELSE <<"n">>

ucs_config_sscanf_ternary(buf, dest) ==
    IF strcasecmp0(buf, <<"t","r","y">>) \/ strcasecmp0(buf, <<"m","a","y","b","e">>)
    THEN [ret |-> 1, v |-> UCS_TRY]
    ELSE ucs_config_sscanf_bool(buf, dest)

ucs_config_sscanf_ternary_auto(buf, dest) ==
    IF strcasecmp0(buf, UCS_VALUE_AUTO_STR)
    THEN [ret |-> 1, v |-> UCS_AUTO]
    ELSE ucs_config_sscanf_ternary(buf, dest)

ucs_config_sprintf_ternary_auto(src) ==
    IF src = UCS_AUTO THEN UCS_VALUE_AUTO_STR
    ELSE IF src = UCS_TRY THEN <<"t","r","y">>
    ELSE ucs_config_sprintf_bool(src)

\* the values of ucs_on_off_auto_value_t
UCS_CONFIG_OFF == 0

UCS_CONFIG_ON == 1

UCS_CONFIG_AUTO == 2

ucs_config_sscanf_on_off(buf, dest) ==
    IF \/ strcasecmp0(buf, <<"o","n">>) \/ buf = <<"1">>
       \/ strcasecmp0(buf, <<"y","e","s">>) \/ strcasecmp0(buf, <<"y">>)
    THEN [ret |-> 1, v |-> UCS_CONFIG_ON]
    ELSE IF \/ strcasecmp0(buf, <<"o","f","f">>) \/ buf = <<"0">>
            \/ strcasecmp0(buf, <<"n","o">>) \/ strcasecmp0(buf, <<"n">>)
    THEN [ret |-> 1, v |-> UCS_CONFIG_OFF]
    ELSE [ret |-> 0, v |-> dest]

ucs_config_sscanf_on_off_auto(buf, dest) ==
    IF \/ strcasecmp0(buf, <<"t","r","y">>)
       \/ strcasecmp0(buf, <<"m","a","y","b","e">>)
       \/ strcasecmp0(buf, UCS_VALUE_AUTO_STR)
    THEN [ret |-> 1, v |-> UCS_CONFIG_AUTO]
    ELSE ucs_config_sscanf_on_off(buf, dest)

ucs_config_sprintf_on_off_auto(src) ==
    CASE src = UCS_CONFIG_AUTO -> UCS_VALUE_AUTO_STR
      [] src = UCS_CONFIG_ON   -> <<"o","n">>
      [] src = UCS_CONFIG_OFF  -> <<"o","f","f">>
      [] OTHER                 -> snprintf_d(src)

\* ULLONG_MAX and ULLONG_MAX - 1, kept as their two's-complement
\* representatives
UCS_TIME_INFINITY == -1

UCS_TIME_AUTO == -2

\* sscanf(buf, "%lf%c%c", &value, &units[0], &units[1]) for the texts
\* <digits>[.<digits>][<units>], and value / per_sec; a time is kept in
\* units of 10^-DblDigits microseconds
ucs_config_sscanf_time(buf, dest) ==
    LET r     == ucs_config_sscanf_double(buf, RawSlot)
        ip    == DigitRun(buf)
        rest  == SubSeq(buf, Len(ip) + 1, Len(buf))
        after == IF rest # <<>> /\ Head(rest) = "."
                 THEN SubSeq(rest, Len(DigitRun(Tail(rest))) + 2, Len(rest))
                 ELSE rest
        units == strn(after, 2)
    IN IF r.ret # 1 THEN [ret |-> 0, v |-> dest]
       ELSE CASE units = <<>>        -> [ret |-> 1, v |-> r.slot.n * 1000000]
              [] units = <<"m">>     -> [ret |-> 1, v |-> r.slot.n * 60000000]
              [] units = <<"s">>     -> [ret |-> 1, v |-> r.slot.n * 1000000]
              [] units = <<"m","s">> -> [ret |-> 1, v |-> r.slot.n * 1000]
              [] units = <<"u","s">> -> [ret |-> 1, v |-> r.slot.n]
              [] units = <<"n","s">> -> [ret |-> 1, v |-> r.slot.n \div 1000]
              [] OTHER               -> [ret |-> 0, v |-> dest]

\* snprintf(buf, max, "%.2fus", value * UCS_USEC_PER_SEC)
ucs_config_sprintf_time(src) ==
    LET unit == DBL_SCALE \div 100
        t    == (src + (unit \div 2)) \div unit
    IN DecStr(t \div 100) \o <<".">> \o PadDec(t % 100, 2) \o <<"u","s">>

\* the ticks of a time and back, with a tick of one nanosecond
ucs_time_from_sec(sec) ==
    (sec + (DBL_SCALE \div 2000)) \div (DBL_SCALE \div 1000)

ucs_time_to_sec(t) == t * (DBL_SCALE \div 1000)

ucs_config_sscanf_time_units(buf, dest) ==
    IF buf = UCS_NUMERIC_INF_STR THEN [ret |-> 1, v |-> UCS_TIME_INFINITY]
    ELSE IF buf = UCS_VALUE_AUTO_STR THEN [ret |-> 1, v |-> UCS_TIME_AUTO]
    ELSE IF ucs_config_sscanf_time(buf, 0).ret = 0 THEN [ret |-> 0, v |-> dest]
    ELSE [ret |-> 1,
          v |-> ucs_time_from_sec(ucs_config_sscanf_time(buf, 0).v)]

ucs_config_sprintf_time_units(src) ==
    IF src = UCS_TIME_INFINITY THEN UCS_NUMERIC_INF_STR
    ELSE IF src = UCS_TIME_AUTO THEN UCS_VALUE_AUTO_STR
    ELSE ucs_config_sprintf_time(ucs_time_to_sec(src))

\* index of the first c in s, 0 without one
strchr(s, c) ==
    IF \E i \in 1..Len(s) : s[i] = c
    THEN CHOOSE i \in 1..Len(s) : s[i] = c /\ \A j \in 1..(i - 1) : s[j] # c
    ELSE 0

\* the single number is scanned from buf, the ends of a range from the two
\* halves of the copy split at the first '-'
ucs_config_sscanf_range_spec(buf, dest) ==
    LET p     == strchr(buf, "-")
        first == sscanf_u(IF p = 0 THEN buf ELSE SubSeq(buf, 1, p - 1))
        lastn == IF p = 0 THEN first
                 ELSE sscanf_u(SubSeq(buf, p + 1, Len(buf)))
    IN IF first.ret # 1 \/ lastn.ret # 1 THEN [ret |-> 0, v |-> dest]
       ELSE [ret |-> 1, v |-> [first |-> first.n, last |-> lastn.n]]

\* the unsigned ends are printed with "%d"
ucs_config_sprintf_range_spec(src) ==
    IF src.first = src.last THEN snprintf_d(src.first)
    ELSE snprintf_d(src.first) \o <<"-">> \o snprintf_d(src.last)

ucs_config_parser_negate == "^"

UCS_CONFIG_PARSER_ALL == <<"a","l","l">>

UCS_CONFIG_ALLOW_LIST_ALLOW_ALL == "UCS_CONFIG_ALLOW_LIST_ALLOW_ALL"

UCS_CONFIG_ALLOW_LIST_ALLOW == "UCS_CONFIG_ALLOW_LIST_ALLOW"

UCS_CONFIG_ALLOW_LIST_NEGATE == "UCS_CONFIG_ALLOW_LIST_NEGATE"

\* an array of strings: every token of the text is an element
ucs_config_sscanf_array(buf, dest) == [ret |-> 1, v |-> strtok(buf, ",")]

RECURSIVE ucs_config_sprintf_array(_)
ucs_config_sprintf_array(src) ==
    IF src = <<>> THEN <<>>
    ELSE IF Len(src) = 1 THEN src[1]
    ELSE src[1] \o <<",">> \o ucs_config_sprintf_array(Tail(src))

\* an allow-list of strings; "all" in the first place releases the array,
\* and fails on a longer list with the mode already written
\* the elements are released and the block of the array is freed: data
\* tells whether the block is live, frees counts the calls of ucs_free on
\* it, dfree that one of them found it not live
ucs_config_release_array(field) ==
    [field EXCEPT !.data = FALSE, !.frees = @ + 1,
                  !.dfree = @ \/ ~field.data]

\* a release that frees the array under every mode
release_allow_list_always(field) == ucs_config_release_array(field)

ucs_config_release_allow_list(field) ==
    IF field.mode = UCS_CONFIG_ALLOW_LIST_ALLOW_ALL THEN field
    ELSE ucs_config_release_array(field)

ucs_config_sscanf_allow_list(buf, dest) ==
    LET neg   == buf # <<>> /\ Head(buf) = ucs_config_parser_negate
        array == ucs_config_sscanf_array(IF neg THEN Tail(buf) ELSE buf,
                                         <<>>).v
        field == [mode  |-> IF neg THEN UCS_CONFIG_ALLOW_LIST_NEGATE
                            ELSE UCS_CONFIG_ALLOW_LIST_ALLOW,
                  array |-> array, data |-> TRUE, frees |-> 0,
                  dfree |-> FALSE]
    IN IF array # <<>> /\ array[1] = UCS_CONFIG_PARSER_ALL
       THEN [ret |-> IF Len(array) # 1 THEN 0 ELSE 1,
             v |-> [ucs_config_release_array(field) EXCEPT
                       !.mode  = UCS_CONFIG_ALLOW_LIST_ALLOW_ALL,
                       !.array = IF Len(array) # 1 THEN array ELSE <<>>]]
       ELSE [ret |-> 1, v |-> field]

ucs_config_sprintf_allow_list(src) ==
    IF src.mode = UCS_CONFIG_ALLOW_LIST_ALLOW_ALL THEN UCS_CONFIG_PARSER_ALL
    ELSE IF src.mode = UCS_CONFIG_ALLOW_LIST_NEGATE
    THEN <<ucs_config_parser_negate>> \o ucs_config_sprintf_array(src.array)
    ELSE ucs_config_sprintf_array(src.array)

\* ucs_strdup: a fresh heap block; overwriting a pointer that is still live
\* loses the old block
ucs_config_sscanf_string(buf, slot) ==
    [ret |-> 1, slot |-> [slot EXCEPT !.s = buf, !.live = TRUE, !.init = TRUE]]

ucs_config_sprintf_string(slot) == slot.s

\* The state of a clone: c.mem is the destination, c.n the allocations
\* requested so far; the allocation numbered c.fail returns NULL (0: none)
Cloning(mem, fail) == [status |-> UCS_OK, mem |-> mem, n |-> 0, fail |-> fail]

\* ucs_strdup of the string src points to: a fresh heap block, or NULL and
\* the destination is not written
ucs_config_clone_string(src, c, var) ==
    IF c.n + 1 = c.fail
    THEN [c EXCEPT !.n = @ + 1, !.status = UCS_ERR_NO_MEMORY]
    ELSE [c EXCEPT !.n = @ + 1, !.status = UCS_OK,
                   !.mem[var] = [RawSlot EXCEPT !.s = src[var].s,
                                                !.live = TRUE, !.init = TRUE]]

\* *dest = *src
ucs_config_clone_uint(src, c, var) ==
    [c EXCEPT !.status = UCS_OK, !.mem[var] = src[var]]

\* a release that frees nothing
release_string_none(slot) == slot

ucs_config_release_string(slot) == [slot EXCEPT !.live = FALSE]

ucs_config_release_nop(slot) == slot

(***************************************************************************)
(* Field tables.  A field is [name, dfl_value, offset, parser, arg, sub]:  *)
(* parser names the vtable, arg is the enum name list, sub the field list  *)
(* of a table field.                                                       *)
(***************************************************************************)

\* SIZE_MAX
UCS_CONFIG_DEPRECATED_FIELD_OFFSET == -1

Field(name, dfl_value, offset, parser, arg, sub) ==
    [name |-> name, dfl_value |-> dfl_value, offset |-> offset,
     parser |-> parser, arg |-> arg, sub |-> sub]

s_MODE    == <<"M","O","D","E">>
s_AMODE   == <<"A","M","O","D","E">>
s_OLD     == <<"O","L","D">>
s_NAME    == <<"N","A","M","E">>
s_ANAME   == <<"A","N","A","M","E">>
s_QKEY    == <<"Q","K","E","Y">>
s_BACKOFF == <<"B","A","C","K","O","F","F">>
s_IB_     == <<"I","B","_">>
s_UD_     == <<"U","D","_">>
s_UD_MLX5_ == <<"U","D","_","M","L","X","5","_">>
s_UCX_    == <<"U","C","X","_">>
s_A_UCX_  == <<"A","_","U","C","X","_">>

v_signal          == ucs_async_mode_names[1]
v_thread_spinlock == ucs_async_mode_names[2]
v_thread_mutex    == ucs_async_mode_names[3]
v_poll            == ucs_async_mode_names[4]
v_banana          == <<"b","a","n","a","n","a">>

\* the IB interface table: one unsigned field
uct_ib_iface_config_table ==
    << Field(s_QKEY, <<"0">>, 0, "uint", <<>>, "") >>

\* the UD interface table embeds the IB table
uct_ud_iface_config_table ==
    << Field(s_IB_, <<>>, 0, "table", <<>>, "ib"),
       Field(s_BACKOFF, <<"2",".","0">>, 1, "double", <<>>, "") >>

uct_ud_mlx5_iface_common_config_table ==
    << Field(s_MODE, v_signal, 0, "enum", ucs_async_mode_names, "") >>

\* three sub-tables; the default text of the first one sets a field of it
uct_ud_mlx5_iface_config_table ==
    << Field(s_UD_, s_BACKOFF \o <<"=","1",".","5">>, 0, "table", <<>>, "ud"),
       Field(s_IB_, <<>>, 2, "table", <<>>, "ib"),
       Field(s_UD_, <<>>, 3, "table", <<>>, "udc") >>

\* a table with every kind of field: real, sub-table, alias, deprecated
ctx_config_table ==
    << Field(s_MODE, v_signal, 0, "enum", ucs_async_mode_names, ""),
       Field(s_IB_, <<>>, 1, "table", <<>>, "ib"),
       Field(s_NAME, <<"u","c","x">>, 2, "string", <<>>, ""),
       Field(s_AMODE, NULL, 0, "enum", ucs_async_mode_names, ""),
       Field(s_OLD, <<>>, UCS_CONFIG_DEPRECATED_FIELD_OFFSET, "uint", <<>>, ""),
       Field(s_ANAME, NULL, 2, "string", <<>>, "") >>

\* a table of two string fields
names_config_table ==
    << Field(s_NAME, <<"u","c","x">>, 0, "string", <<>>, ""),
       Field(s_MODE, v_poll, 1, "string", <<>>, "") >>

s_C_ == <<"C","_">>

\* tables whose table field carries a default text of its own: two tokens
\* for one field and one for a field of a nested table; a token that names
\* an alias; a token whose value does not parse; a token for a nested table
test_order_table ==
    << Field(s_UD_, s_BACKOFF \o <<"=","1",".","5",";">> \o s_IB_ \o s_QKEY \o
                    <<"=","5",";">> \o s_BACKOFF \o <<"=","2",".","5">>,
             0, "table", <<>>, "ud"),
       Field(s_NAME, <<"u","c","x">>, 2, "string", <<>>, "") >>

test_alias_table ==
    << Field(s_C_, s_AMODE \o <<"=">> \o v_poll \o <<";">> \o s_IB_ \o s_QKEY \o
                   <<"=","7">>,
             0, "table", <<>>, "ctx") >>

test_bad_table ==
    << Field(s_UD_, s_BACKOFF \o <<"=","x">>, 0, "table", <<>>, "ud") >>

test_nest_table ==
    << Field(s_C_, s_UD_ \o s_BACKOFF \o <<"=","3",".","5",";">> \o s_UD_ \o
                   s_MODE \o <<"=">> \o v_poll,
             0, "table", <<>>, "ud_mlx5") >>

Table(t) ==
    CASE t = "ctx"     -> ctx_config_table
      [] t = "names"   -> names_config_table
      [] t = "test_order" -> test_order_table
      [] t = "test_alias" -> test_alias_table
      [] t = "test_bad"   -> test_bad_table
      [] t = "test_nest"  -> test_nest_table
      [] t = "ib"      -> uct_ib_iface_config_table
      [] t = "ud"      -> uct_ud_iface_config_table
      [] t = "udc"     -> uct_ud_mlx5_iface_common_config_table
      [] t = "ud_mlx5" -> uct_ud_mlx5_iface_config_table

\* the registered entries: {name, prefix, table, size}
ucs_config_global_list ==
    << [name |-> "ctx", prefix |-> <<>>, table |-> "ctx", size |-> 3],
       [name |-> "ud_mlx5", prefix |-> s_UD_MLX5_, table |-> "ud_mlx5",
        size |-> 4] >>

Entries == 1..Len(ucs_config_global_list)

\* the slots of the largest opts struct
OptsSlots == 0 .. 3

ucs_config_is_deprecated_field(field) ==
    field.offset = UCS_CONFIG_DEPRECATED_FIELD_OFFSET

ucs_config_is_alias_field(field) == field.dfl_value = NULL

ucs_config_is_table_field(field) == field.parser = "table"

ucs_config_field_is_last(t, i) == i > Len(Table(t))

\* x named once for the expression Then: the result of a call is computed
\* once and handed on
Bind(x, Then(_)) == Then(x)

\* x is computed before Then is entered
Strict(x, Then(_)) == IF x = x THEN Then(x) ELSE x

(***************************************************************************)
(* The machine a call works on: m.mem is the caller's opts struct, m.used  *)
(* the set ucs_config_parser_env_vars, m.fvars the map                     *)
(* ucs_config_file_vars; m.status and m.ret carry the value returned by    *)
(* the last call, m.env is the process environment, m.out the caller's     *)
(* output buffer.  m.replaced (the slots a set_value call parsed a new     *)
(* value into), m.leak (a live heap pointer was overwritten), m.dfree (a   *)
(* pointer that was not live was freed) and m.norestore (the restore of a  *)
(* backup failed) record what the call did.                                *)
(***************************************************************************)
Machine(mem, used, fvars, env) ==
    [mem |-> mem, used |-> used, fvars |-> fvars, env |-> env,
     status |-> UCS_OK, ret |-> 1, out |-> NULL, replaced |-> {},
     leak |-> FALSE, dfree |-> FALSE, norestore |-> FALSE]

RawOpts == [o \in OptsSlots |-> RawSlot]

RECURSIVE ucs_config_parser_set_value_internal(_, _, _, _, _, _, _)
RECURSIVE set_value_fields(_, _, _, _, _, _, _, _, _)
RECURSIVE ucs_config_sscanf_table(_, _, _, _)
RECURSIVE sscanf_table_tokens(_, _, _, _, _)
RECURSIVE ucs_config_parser_release_opts(_, _, _)
RECURSIVE release_opts_fields(_, _, _, _)
RECURSIVE ucs_config_parser_set_default_values(_, _, _)
RECURSIVE set_default_values_fields(_, _, _, _)
RECURSIVE ucs_config_apply_config_vars(_, _, _, _, _, _, _)
RECURSIVE apply_config_vars_fields(_, _, _, _, _, _, _, _)
RECURSIVE ucs_config_parser_get_value(_, _, _, _, _)
RECURSIVE ucs_config_parser_clone_opts(_, _, _, _)
RECURSIVE clone_opts_fields(_, _, _, _, _)
RECURSIVE get_value_fields(_, _, _, _, _, _)

\* field->parser.read(value, var, arg)
parser_read(m, field, buf, var) ==
    IF field.parser = "table"
    THEN ucs_config_sscanf_table(m, buf, var, field.sub)
    ELSE LET r == CASE field.parser = "uint" ->
                          ucs_config_sscanf_uint(buf, m.mem[var])
                    [] field.parser = "enum" ->
                          ucs_config_sscanf_enum(buf, m.mem[var], field.arg)
                    [] field.parser = "double" ->
                          ucs_config_sscanf_double(buf, m.mem[var])
                    [] field.parser = "string" ->
                          ucs_config_sscanf_string(buf, m.mem[var])
         IN [m EXCEPT !.ret = r.ret, !.mem[var] = r.slot,
                      !.leak = @ \/ (field.parser = "string" /\ m.mem[var].live)]

\* field->parser.write(buf, max, var, arg), the text written
parser_write(field, slot) ==
    CASE field.parser = "uint"   -> ucs_config_sprintf_uint(slot)
      [] field.parser = "enum"   -> ucs_config_sprintf_enum(slot, field.arg)
      [] field.parser = "double" -> ucs_config_sprintf_double(slot)
      [] field.parser = "string" -> ucs_config_sprintf_string(slot)

ucs_config_parser_parse_field(m, field, value, var) ==
    IF value = NULL
    THEN [m EXCEPT !.status = SIGSEGV]
    ELSE Bind(parser_read(m, field, value, var), LAMBDA r :
         [r EXCEPT !.status = IF r.ret # 1 THEN UCS_ERR_INVALID_PARAM
                              ELSE UCS_OK])

\* field->parser.release(var, arg)
ucs_config_parser_release_field(m, field, var) ==
    CASE field.parser = "table" ->
             ucs_config_parser_release_opts(m, var, field.sub)
      [] field.parser = "string" ->
             [m EXCEPT !.mem[var] = ucs_config_release_string(@),
                       !.dfree = @ \/ ~m.mem[var].live]
      [] OTHER -> [m EXCEPT !.mem[var] = ucs_config_release_nop(@)]

release_opts_fields(m, opts, t, i) ==
    IF ucs_config_field_is_last(t, i) THEN m
    ELSE LET field == Table(t)[i]
         IN IF ucs_config_is_alias_field(field) \/
               ucs_config_is_deprecated_field(field)
            THEN release_opts_fields(m, opts, t, i + 1)
            ELSE release_opts_fields(
                     ucs_config_parser_release_field(m, field,
                                                     opts + field.offset),
                     opts, t, i + 1)

ucs_config_parser_release_opts(m, opts, t) == release_opts_fields(m, opts, t, 1)

set_default_values_fields(m, opts, t, i) ==
    IF ucs_config_field_is_last(t, i) THEN [m EXCEPT !.status = UCS_OK]
    ELSE Bind(Table(t)[i], LAMBDA field :
    Bind(opts + field.offset, LAMBDA var :
    IF ucs_config_is_alias_field(field) \/
       ucs_config_is_deprecated_field(field)
    THEN set_default_values_fields(m, opts, t, i + 1)
    ELSE
    Bind(IF ucs_config_is_table_field(field)
         THEN ucs_config_parser_set_default_values(m, var, field.sub)
         ELSE [m EXCEPT !.status = UCS_OK], LAMBDA m1 :
    IF m1.status # UCS_OK THEN m1
    ELSE
    Bind(ucs_config_parser_parse_field(m1, field, field.dfl_value, var),
         LAMBDA m2 :
    IF m2.status # UCS_OK THEN m2
    ELSE set_default_values_fields(m2, opts, t, i + 1)))))

ucs_config_parser_set_default_values(m, opts, t) ==
    set_default_values_fields(m, opts, t, 1)

\* a match on the bare field name, whatever the prefix
prefix_name_match_bare(prefix, prefix_len, name, pattern) ==
    fnmatch0(pattern, name)

ucs_config_prefix_name_match(prefix, prefix_len, name, pattern) ==
    IF prefix_len = 0 THEN fnmatch0(pattern, name)
    ELSE fnmatch0(pattern, prefix \o name)

set_value_fields(m, opts, t, name, value, table_prefix, recurse, i, count) ==
    IF ucs_config_field_is_last(t, i)
    THEN [m EXCEPT !.status = IF count = 0 THEN UCS_ERR_NO_ELEM ELSE UCS_OK]
    ELSE
    Bind(Table(t)[i], LAMBDA field :
    Bind(opts + field.offset, LAMBDA var :
    Bind(IF table_prefix = NULL THEN 0 ELSE Len(table_prefix),
         LAMBDA prefix_len :
    IF ucs_config_is_table_field(field) THEN
        \* check with sub-table prefix
        Bind(IF recurse
             THEN ucs_config_parser_set_value_internal(
                      m, var, field.sub, name, value, field.name, TRUE)
             ELSE [m EXCEPT !.status = UCS_ERR_NO_ELEM], LAMBDA m1 :
        Bind(IF recurse /\ m1.status = UCS_OK THEN count + 1 ELSE count,
             LAMBDA c1 :
        IF m1.status \notin {UCS_OK, UCS_ERR_NO_ELEM} THEN m1
        ELSE
        \* possible override with my prefix
        Bind(IF table_prefix # NULL
             THEN ucs_config_parser_set_value_internal(
                      m1, var, field.sub, name, value, table_prefix, FALSE)
             ELSE [m1 EXCEPT !.status = UCS_ERR_NO_ELEM], LAMBDA m2 :
        Bind(IF table_prefix # NULL /\ m2.status = UCS_OK
             THEN c1 + 1 ELSE c1, LAMBDA c2 :
        IF m2.status \notin {UCS_OK, UCS_ERR_NO_ELEM} THEN m2
        ELSE set_value_fields(m2, opts, t, name, value, table_prefix,
                              recurse, i + 1, c2)))))
    ELSE IF ucs_config_prefix_name_match(table_prefix, prefix_len,
                                         field.name, name) THEN
        IF ucs_config_is_deprecated_field(field)
        THEN [m EXCEPT !.status = UCS_ERR_NO_ELEM]
        ELSE
        \* backup the current value, release it, parse the new one
        Bind(parser_write(field, m.mem[var]), LAMBDA value_buf :
        Bind(ucs_config_parser_release_field(m, field, var), LAMBDA m1 :
        Bind(ucs_config_parser_parse_field(m1, field, value, var),
             LAMBDA m2 :
        IF m2.status # UCS_OK
        THEN Bind(ucs_config_parser_parse_field(m2, field, value_buf, var),
                  LAMBDA m3 :
             [m3 EXCEPT !.status = m2.status,
                        !.norestore = @ \/ (m3.status # UCS_OK)])
        ELSE set_value_fields([m2 EXCEPT !.replaced = @ \cup {var}],
                              opts, t, name, value, table_prefix, recurse,
                              i + 1, count + 1))))
    ELSE set_value_fields(m, opts, t, name, value, table_prefix, recurse,
                          i + 1, count))))

ucs_config_parser_set_value_internal(m, opts, t, name, value, table_prefix, recurse) ==
    set_value_fields(m, opts, t, name, value, table_prefix, recurse, 1, 0)

\* the ';'-separated tokens of a table value, each "name=value"
sscanf_table_tokens(m, tokens, dest, arg, k) ==
    IF k > Len(tokens) THEN [m EXCEPT !.ret = 1]
    ELSE Bind(strtok(tokens[k], "="), LAMBDA nv :
         IF Len(nv) < 2 THEN [m EXCEPT !.ret = 0]
         ELSE Bind(ucs_config_parser_set_value_internal(
                       m, dest, arg, nv[1], nv[2], NULL, TRUE), LAMBDA m1 :
              IF m1.status # UCS_OK THEN [m1 EXCEPT !.ret = 0]
              ELSE sscanf_table_tokens(m1, tokens, dest, arg, k + 1)))

\* a table read that applies no token
sscanf_table_none(m, buf, dest, arg) == [m EXCEPT !.ret = 1]

ucs_config_sscanf_table(m, buf, dest, arg) ==
    sscanf_table_tokens(m, strtok(buf, ";"), dest, arg, 1)

(***************************************************************************)
(* The apply pipeline                                                      *)
(***************************************************************************)

\* an environment that is never consulted
getenv_none(env, name) == NULL

\* getenv(name)
getenv(env, name) == IF name \in DOMAIN env THEN env[name] ELSE NULL

\* a name that is not recorded
mark_env_var_used_none(m, name) == m

\* the set is keyed by name: a name already in it is not added again
ucs_config_parser_mark_env_var_used(m, name) ==
    [m EXCEPT !.used = @ \cup {name}]

\* a file map that is never consulted
get_value_from_config_file_none(m, name) == NULL

ucs_config_get_value_from_config_file(m, name) ==
    IF name \in DOMAIN m.fvars THEN m.fvars[name] ELSE NULL

apply_config_vars_fields(m, opts, t, prefix, table_prefix, recurse, ignore_errors, i) ==
    IF ucs_config_field_is_last(t, i) THEN [m EXCEPT !.status = UCS_OK]
    ELSE
    Bind(Table(t)[i], LAMBDA field :
    Bind(opts + field.offset, LAMBDA var :
    Bind(prefix \o (IF table_prefix # NULL THEN table_prefix ELSE <<>>)
                \o field.name, LAMBDA buf :
    IF ucs_config_is_table_field(field) THEN
        \* parse with sub-table prefix
        Bind(IF recurse
             THEN ucs_config_apply_config_vars(
                      m, var, field.sub, prefix, field.name, TRUE,
                      ignore_errors)
             ELSE [m EXCEPT !.status = UCS_OK], LAMBDA m1 :
        IF m1.status # UCS_OK THEN m1
        ELSE
        \* possible override with my prefix
        Bind(IF table_prefix # NULL
             THEN ucs_config_apply_config_vars(
                      m1, var, field.sub, prefix, table_prefix, FALSE,
                      ignore_errors)
             ELSE m1, LAMBDA m2 :
        IF m2.status # UCS_OK THEN m2
        ELSE apply_config_vars_fields(m2, opts, t, prefix, table_prefix,
                                      recurse, ignore_errors, i + 1)))
    ELSE
        \* env variable has precedence over file config
        Bind(getenv(m.env, buf), LAMBDA e_value :
        Bind(IF e_value = NULL
             THEN ucs_config_get_value_from_config_file(m, buf)
             ELSE e_value, LAMBDA env_value :
        IF env_value = NULL
        THEN apply_config_vars_fields(m, opts, t, prefix, table_prefix,
                                      recurse, ignore_errors, i + 1)
        ELSE
        Bind(ucs_config_parser_mark_env_var_used(m, buf), LAMBDA m1 :
        IF ucs_config_is_deprecated_field(field)
        THEN apply_config_vars_fields(m1, opts, t, prefix, table_prefix,
                                      recurse, ignore_errors, i + 1)
        ELSE
        Bind(ucs_config_parser_release_field(m1, field, var), LAMBDA m2 :
        Bind(ucs_config_parser_parse_field(m2, field, env_value, var),
             LAMBDA m3 :
        IF m3.status = UCS_OK
        THEN apply_config_vars_fields(m3, opts, t, prefix, table_prefix,
                                      recurse, ignore_errors, i + 1)
        ELSE
        \* restore the default value; its status counts if errors are ignored
        Bind(ucs_config_parser_parse_field(m3, field, field.dfl_value, var),
             LAMBDA m4 :
        Bind(IF m4.status = SIGSEGV THEN SIGSEGV
             ELSE IF ignore_errors THEN m4.status ELSE m3.status,
             LAMBDA status :
        IF status # UCS_OK THEN [m4 EXCEPT !.status = status]
        ELSE apply_config_vars_fields(m4, opts, t, prefix, table_prefix,
                                      recurse, ignore_errors, i + 1)))))))))))

ucs_config_apply_config_vars(m, opts, t, prefix, table_prefix, recurse, ignore_errors) ==
    apply_config_vars_fields(m, opts, t, prefix, table_prefix, recurse,
                             ignore_errors, 1)

\* the scan for the last but one '_' of env_prefix
RECURSIVE sub_prefix_scan(_, _)
sub_prefix_scan(env_prefix, len) ==
    IF len > 0 /\ env_prefix[len] # "_"
    THEN sub_prefix_scan(env_prefix, len - 1)
    ELSE len

get_sub_prefix_none(env_prefix) ==
    [status |-> IF Len(env_prefix) < 2 THEN UCS_ERR_INVALID_PARAM ELSE UCS_OK,
     sub_prefix |-> NULL]

\* [status, sub_prefix]: the rightmost of several prefixes, or NULL
ucs_config_parser_get_sub_prefix(env_prefix) ==
    IF Len(env_prefix) < 2
    THEN [status |-> UCS_ERR_INVALID_PARAM, sub_prefix |-> NULL]
    ELSE LET len == sub_prefix_scan(env_prefix, Len(env_prefix) - 2)
         IN [status |-> UCS_OK,
             sub_prefix |-> IF len > 0
                            THEN SubSeq(env_prefix, len + 1, Len(env_prefix))
                            ELSE NULL]

(***************************************************************************)
(* Configuration files.  A file is a sequence of lines [section, name,     *)
(* value] as the ini reader hands them to the line callback; a file that   *)
(* cannot be opened is the empty sequence.                                 *)
(***************************************************************************)
UCS_CPU_VENDOR_LABEL == <<"C","P","U"," ","v","e","n","d","o","r">>

\* what ucs_cpu_vendor_name() returns on the machine of the model
ucs_cpu_vendor_name == <<"I","n","t","e","l">>

casefold(s) == [i \in 1..Len(s) |-> tolower(s[i])]

Line(section, name, value) ==
    [section |-> section, name |-> name, value |-> value]

\* 1 when the line names a filter whose pattern the machine does not match
ucs_config_parse_check_filter(name, value) ==
    IF name = UCS_CPU_VENDOR_LABEL /\
       ~fnmatch0(casefold(value), casefold(ucs_cpu_vendor_name))
    THEN 1 ELSE 0

ucs_config_parse_set_section_info(section_info, section, name, value) ==
    IF section # section_info.name
    THEN [name |-> section,
          skip |-> ucs_config_parse_check_filter(name, value)]
    ELSE IF section_info.skip # 0 THEN section_info
    ELSE [section_info EXCEPT
              !.skip = ucs_config_parse_check_filter(name, value)]

\* parse_arg is [fvars, section_info, override, result]
ucs_config_parse_config_file_line(parse_arg, line) ==
    LET si == ucs_config_parse_set_section_info(
                  parse_arg.section_info, line.section, line.name, line.value)
        a1 == [parse_arg EXCEPT !.section_info = si]
    IN IF si.skip # 0 THEN [a1 EXCEPT !.result = 1]
       ELSE IF line.name \in DOMAIN a1.fvars /\ a1.override = 0
            THEN [a1 EXCEPT !.result = 0]
       ELSE [a1 EXCEPT
                !.fvars = [n \in DOMAIN a1.fvars \cup {line.name} |->
                              IF n = line.name THEN line.value
                              ELSE a1.fvars[n]],
                !.result = 1]

\* ini_parse_file: the callback runs on every line, in order
RECURSIVE ini_parse_file(_, _, _)
ini_parse_file(file, parse_arg, k) ==
    IF k > Len(file) THEN parse_arg
    ELSE ini_parse_file(file,
                        ucs_config_parse_config_file_line(parse_arg, file[k]),
                        k + 1)

\* the file map after the file has been read
ucs_config_parse_config_file(fvars, file, override) ==
    ini_parse_file(file,
                   [fvars |-> fvars,
                    section_info |-> [name |-> <<>>, skip |-> 0],
                    override |-> override, result |-> 1],
                   1).fvars

\* the files of the system directory, the library directory, the home
\* directory, the custom directory and the working directory, in this order
RECURSIVE parse_config_files_from(_, _, _)
parse_config_files_from(fvars, fs, k) ==
    IF k > Len(fs) THEN fvars
    ELSE parse_config_files_from(
             ucs_config_parse_config_file(fvars, fs[k], 1), fs, k + 1)

ucs_config_parse_config_files(fvars, fs) == parse_config_files_from(fvars, fs, 1)

(***************************************************************************)
(* UCS_INIT_ONCE: the body runs under the lock of the latch, in the first  *)
(* caller that finds the latch not initialized.                            *)
(***************************************************************************)
UCS_INIT_ONCE_INITIALIZER == [initialized |-> FALSE, lock |-> 0]

\* a latch that lets every caller run the body
init_once_always(once) == TRUE

\* does the caller that holds the lock have to run the body
UCS_INIT_ONCE(once) == ~once.initialized

(***************************************************************************)
(* The public calls.  A process p is [m, once, fs, loaded]: the machine,   *)
(* the latch config_file_parse, the file system and the set of entries     *)
(* with UCS_CONFIG_TABLE_FLAG_LOADED.                                      *)
(***************************************************************************)

\* the apply passes of a fill_opts that sets the LOADED flag on every exit
fill_opts_apply_flag_always(p, entry, env_prefix, sub_prefix, ignore_errors) ==
    Bind(ucs_config_global_list[entry], LAMBDA e :
    Bind(IF sub_prefix # NULL
         THEN ucs_config_apply_config_vars(
                  p.m, 0, e.table, sub_prefix, e.prefix, TRUE, ignore_errors)
         ELSE p.m, LAMBDA m1 :
    Bind(IF m1.status # UCS_OK THEN m1
         ELSE ucs_config_apply_config_vars(
                  m1, 0, e.table, env_prefix, e.prefix, TRUE, ignore_errors),
         LAMBDA m2 :
    [p EXCEPT !.m = m2, !.loaded = @ \cup {entry}])))

\* the two apply passes and the exit paths of fill_opts, from the point
\* where the file map has been built
fill_opts_apply(p, entry, env_prefix, sub_prefix, ignore_errors) ==
    Bind(ucs_config_global_list[entry], LAMBDA e :
    Bind(IF sub_prefix # NULL
         THEN ucs_config_apply_config_vars(
                  p.m, 0, e.table, sub_prefix, e.prefix, TRUE, ignore_errors)
         ELSE p.m, LAMBDA m1 :
    Bind(IF m1.status # UCS_OK THEN m1
         ELSE ucs_config_apply_config_vars(
                  m1, 0, e.table, env_prefix, e.prefix, TRUE, ignore_errors),
         LAMBDA m2 :
    IF m2.status = UCS_OK
    THEN [p EXCEPT !.m = m2, !.loaded = @ \cup {entry}]
    ELSE IF m2.status = SIGSEGV THEN [p EXCEPT !.m = m2]
    ELSE \* err_free: release default values
         [p EXCEPT !.m = [ucs_config_parser_release_opts(m2, 0, e.table)
                             EXCEPT !.status = m2.status]])))

\* the defaults and the sub-prefix: [p, sub_prefix]
fill_opts_defaults(p, entry, env_prefix) ==
    Bind(ucs_config_global_list[entry], LAMBDA e :
    Bind(ucs_config_parser_set_default_values(p.m, 0, e.table), LAMBDA m1 :
    Bind(ucs_config_parser_get_sub_prefix(env_prefix), LAMBDA sp :
    IF m1.status # UCS_OK
    THEN [p |-> [p EXCEPT !.m = m1], sub_prefix |-> NULL]
    ELSE [p |-> [p EXCEPT !.m = [m1 EXCEPT !.status = sp.status]],
          sub_prefix |-> sp.sub_prefix])))

ucs_config_parser_fill_opts(p, entry, env_prefix, ignore_errors) ==
    Bind(fill_opts_defaults(p, entry, env_prefix), LAMBDA d :
    IF d.p.m.status # UCS_OK THEN d.p
    ELSE fill_opts_apply(
             IF UCS_INIT_ONCE(d.p.once)
             THEN [d.p EXCEPT
                      !.m.fvars = ucs_config_parse_config_files(
                                      d.p.m.fvars, d.p.fs),
                      !.once.initialized = TRUE]
             ELSE d.p,
             entry, env_prefix, d.sub_prefix, ignore_errors))

\* An array field: the block data points to (live or not), the count and
\* the elements stored in the block
RawArray == [data |-> FALSE, count |-> 0, elems |-> <<>>]

RECURSIVE clone_array_elems(_, _, _)
clone_array_elems(src, c, i) ==
    IF i > src.count THEN [c EXCEPT !.status = UCS_OK]
    ELSE Strict(ucs_config_clone_string(
                    src.elems, [c EXCEPT !.mem = c.mem.elems], i), LAMBDA e :
         IF e.status # UCS_OK
         THEN [e EXCEPT !.mem = [c.mem EXCEPT !.data = FALSE]]
         ELSE clone_array_elems(
                  src, [e EXCEPT !.mem = [c.mem EXCEPT !.elems = e.mem]],
                  i + 1))

\* an array of strings: the block is allocated when count > 0, the
\* elements are cloned in order and the block is freed when one fails
ucs_config_clone_array(src, c) ==
    IF src.count > 0 /\ c.n + 1 = c.fail
    THEN [c EXCEPT !.n = @ + 1, !.status = UCS_ERR_NO_MEMORY,
                   !.mem.data = FALSE]
    ELSE clone_array_elems(
             src,
             [c EXCEPT !.n = IF src.count > 0 THEN @ + 1 ELSE @,
                       !.mem = [data  |-> src.count > 0,
                                count |-> src.count,
                                elems |-> [i \in 1..src.count |-> RawSlot]]],
             1)

\* a key-value map of strings, one slot for each key of param->keys: the
\* loop stops at the first key whose clone fails
RECURSIVE ucs_config_clone_key_value(_, _, _)
ucs_config_clone_key_value(src, c, cfg_key) ==
    IF cfg_key > Len(src) THEN c
    ELSE Strict(ucs_config_clone_string(src, c, cfg_key), LAMBDA e :
         IF e.status # UCS_OK THEN e
         ELSE ucs_config_clone_key_value(src, e, cfg_key + 1))

\* ucs_string_split: the first count tokens of str cut at delim, with the
\* delimiters in front of a token skipped; a token is NULL once the string
\* has ended, and rest is what follows the last token cut (NULL: nothing)
RECURSIVE strspn_skip(_, _)
strspn_skip(s, delim) ==
    IF s # <<>> /\ Head(s) = delim THEN strspn_skip(Tail(s), delim) ELSE s

RECURSIVE ucs_string_split(_, _, _, _)
ucs_string_split(str, delim, count, toks) ==
    IF count = 0 THEN [toks |-> toks, rest |-> str]
    ELSE IF str = NULL \/ strspn_skip(str, delim) = <<>>
    THEN ucs_string_split(NULL, delim, count - 1, Append(toks, NULL))
    ELSE Bind(strspn_skip(str, delim), LAMBDA p :
         IF strchr(p, delim) = 0
         THEN ucs_string_split(NULL, delim, count - 1, Append(toks, p))
         ELSE ucs_string_split(SubSeq(p, strchr(p, delim) + 1, Len(p)), delim,
                               count - 1,
                               Append(toks, SubSeq(p, 1, strchr(p, delim) - 1))))

\* the index of key in the declared keys, from 0, or -1
ucs_config_key_find(keys, key) ==
    IF \E idx \in 1..Len(keys) : keys[idx] = key
    THEN (CHOOSE idx \in 1..Len(keys) :
             keys[idx] = key /\ \A j \in 1..(idx - 1) : keys[j] # key) - 1
    ELSE -1

\* A key-value field: param.keys are the declared names and param.parser
\* the parser of the values; dest.mem holds one slot for each key and
\* dest.released counts the calls of param->parser.release on each
RawKeyValue(keys) ==
    [mem |-> [i \in 1..Len(keys) |-> RawSlot],
     released |-> [i \in 1..Len(keys) |-> 0]]

key_value_read(param, value, slot) ==
    IF param.parser = "uint" THEN ucs_config_sscanf_uint(value, slot)
    ELSE ucs_config_sscanf_string(value, slot)

key_value_release(param, slot) ==
    IF param.parser = "uint" THEN ucs_config_release_nop(slot)
    ELSE ucs_config_release_string(slot)

\* a revert that releases nothing
key_value_revert_none(param, dest, idx) == dest

\* while (idx-- > 0) release(dest + keys[idx].offset)
RECURSIVE key_value_revert(_, _, _)
key_value_revert(param, dest, idx) ==
    IF idx = 0 THEN dest
    ELSE key_value_revert(
             param,
             [dest EXCEPT !.mem[idx] = key_value_release(param, @),
                          !.released[idx] = @ + 1],
             idx - 1)

\* the token loop: values[idx] of each key:value item, default_value of each
\* bare item; an item that names an undeclared key ends the read
RECURSIVE key_value_tokens(_, _, _, _)
key_value_tokens(sp, param, values, default_value) ==
    IF sp.toks[1] = NULL
    THEN [ret |-> 1, values |-> values, default_value |-> default_value]
    ELSE Bind(ucs_string_split(sp.toks[1], ":", 2, <<>>).toks, LAMBDA kv :
         IF kv[2] = NULL
         THEN key_value_tokens(ucs_string_split(sp.rest, ",", 1, <<>>),
                               param, values, kv[1])
         ELSE IF ucs_config_key_find(param.keys, kv[1]) < 0
         THEN [ret |-> 0, values |-> values,
               default_value |-> default_value]
         ELSE key_value_tokens(
                  ucs_string_split(sp.rest, ",", 1, <<>>), param,
                  [values EXCEPT
                      ![ucs_config_key_find(param.keys, kv[1]) + 1] = kv[2]],
                  default_value))

\* the loop that validates and applies the settings, from key idx
RECURSIVE key_value_apply(_, _, _, _, _)
key_value_apply(param, dest, values, default_value, idx) ==
    IF idx >= Len(param.keys) THEN [ret |-> 1, dest |-> dest]
    ELSE Bind(IF values[idx + 1] = NULL THEN default_value
              ELSE values[idx + 1], LAMBDA value :
         Bind(IF value = NULL
              THEN [ret |-> 0, slot |-> dest.mem[idx + 1]]
              ELSE key_value_read(param, value, dest.mem[idx + 1]),
              LAMBDA r :
         IF r.ret = 1
         THEN key_value_apply(param, [dest EXCEPT !.mem[idx + 1] = r.slot],
                              values, default_value, idx + 1)
         ELSE [ret |-> 0, dest |-> key_value_revert(param, dest, idx)]))

ucs_config_sscanf_key_value(buf, dest, param) ==
    Bind(key_value_tokens(ucs_string_split(buf, ",", 1, <<>>), param,
                          [i \in 1..Len(param.keys) |-> NULL], NULL),
         LAMBDA t :
         IF t.ret = 0 THEN [ret |-> 0, dest |-> dest]
         ELSE key_value_apply(param, dest, t.values, t.default_value, 0))

\* field->parser.clone(src + offset, dst + offset, arg): the memory of dst
parser_clone(src, dst, field, var) ==
    CASE field.parser = "table" ->
             ucs_config_parser_clone_opts(src, dst, var, field.sub)
      [] field.parser = "string" -> ucs_config_clone_string(src, dst, var)
      [] OTHER -> ucs_config_clone_uint(src, dst, var)

\* the loop returns the status of the first field whose clone fails
clone_opts_fields(src, dst, opts, t, i) ==
    IF ucs_config_field_is_last(t, i) THEN [dst EXCEPT !.status = UCS_OK]
    ELSE IF ucs_config_is_alias_field(Table(t)[i]) \/
            ucs_config_is_deprecated_field(Table(t)[i])
    THEN clone_opts_fields(src, dst, opts, t, i + 1)
    ELSE Strict(parser_clone(src, dst, Table(t)[i],
                             opts + Table(t)[i].offset), LAMBDA dst1 :
         IF dst1.status # UCS_OK THEN dst1
         ELSE clone_opts_fields(src, dst1, opts, t, i + 1))

\* dst.mem is the memory of dst and dst.status the status returned
ucs_config_parser_clone_opts(src, dst, opts, t) ==
    clone_opts_fields(src, dst, opts, t, 1)

ucs_config_parser_set_value(m, t, prefix, name, value) ==
    ucs_config_parser_set_value_internal(m, 0, t, name, value, prefix, TRUE)

\* wild is what the bytes in front of opts hold: a deprecated field has
\* offset SIZE_MAX, so its value pointer is opts - 1
get_value_fields(m, opts, t, name, wild, i) ==
    IF ucs_config_field_is_last(t, i) \/ m.status # UCS_ERR_NO_ELEM THEN m
    ELSE
    LET field    == Table(t)[i]
        name_len == Len(field.name)
    IN
    IF ucs_config_is_table_field(field) /\
       strncmp0(field.name, name, name_len)
    THEN get_value_fields(
             ucs_config_parser_get_value(
                 m, opts + field.offset, field.sub,
                 SubSeq(name, name_len + 1, Len(name)), wild),
             opts, t, name, wild, i + 1)
    ELSE IF strncmp0(field.name, name, Len(name))
    THEN IF ucs_config_is_table_field(field)
         THEN \* the write operation of the table parser is NULL
              [m EXCEPT !.status = SIGSEGV]
         ELSE LET slot == IF ucs_config_is_deprecated_field(field)
                          THEN wild ELSE m.mem[opts + field.offset]
              IN [m EXCEPT !.out = parser_write(field, slot),
                           !.status = UCS_OK]
    ELSE get_value_fields(m, opts, t, name, wild, i + 1)

ucs_config_parser_get_value(m, opts, t, name, wild) ==
    get_value_fields([m EXCEPT !.status = UCS_ERR_NO_ELEM], opts, t, name,
                     wild, 1)

(***************************************************************************)
(* Diagnostics: the scan of the environment for variables that no apply    *)
(* pass has used, with the names suggested for them.                       *)
(***************************************************************************)
Min2(a, b) == IF a < b THEN a ELSE b

\* one row of the distance table: row[j + 1] is the distance between the
\* first i characters of a and the first j characters of b
RECURSIVE distance_row(_, _, _, _, _, _)
distance_row(a, b, i, prev2, prev, row) ==
    IF Len(row) > Len(b) THEN row
    ELSE
    Bind(Len(row), LAMBDA j :
    Bind(Min2(Min2(prev[j + 1] + 1, row[j] + 1),
              prev[j] + (IF a[i] = b[j] THEN 0 ELSE 1)), LAMBDA d :
    distance_row(a, b, i, prev2, prev,
                 Append(row, IF i > 1 /\ j > 1 /\ a[i] = b[j - 1]
                                /\ a[i - 1] = b[j]
                             THEN Min2(d, prev2[j - 1] + 1) ELSE d))))

RECURSIVE distance_rows(_, _, _, _, _)
distance_rows(a, b, i, prev2, prev) ==
    IF i > Len(a) THEN prev[Len(b) + 1]
    ELSE Strict(distance_row(a, b, i, prev2, prev, <<i>>), LAMBDA row :
         distance_rows(a, b, i + 1, prev, row))

\* the edit distance of two strings: insertions, deletions, substitutions
\* and transpositions of adjacent characters
ucs_string_distance(str1, str2) ==
    distance_rows(str1, str2, 1, <<>>, [j \in 1..Len(str2) + 1 |-> j - 1])

max_fuzzy_distance == 3

\* the names compared with unused_var and the names close to it, in the
\* order of the table: b is [candidates, matches]
RECURSIVE ucs_config_parser_search_similar_variables(_, _, _, _, _, _, _)
ucs_config_parser_search_similar_variables(t, env_prefix, table_prefix, unused_var, b, max_distance, i) ==
    IF ucs_config_field_is_last(t, i) THEN b
    ELSE
    Bind(Table(t)[i], LAMBDA field :
    Bind(env_prefix \o (IF table_prefix # NULL THEN table_prefix ELSE <<>>)
                    \o field.name, LAMBDA var_name :
    Strict(IF ucs_config_is_table_field(field)
           THEN ucs_config_parser_search_similar_variables(
                    field.sub, env_prefix, table_prefix, unused_var, b,
                    max_distance, 1)
           ELSE [candidates |-> Append(b.candidates, var_name),
                 matches |-> IF ucs_string_distance(unused_var, var_name)
                                  <= max_distance
                             THEN Append(b.matches, var_name)
                             ELSE b.matches], LAMBDA b1 :
    ucs_config_parser_search_similar_variables(
        t, env_prefix, table_prefix, unused_var, b1, max_distance, i + 1))))

\* the entries of the global list in order; flags is the set of entries
\* with UCS_CONFIG_TABLE_FLAG_LOADED
RECURSIVE similar_vars_entries(_, _, _, _, _)
similar_vars_entries(flags, env_prefix, unused_var, b, e) ==
    IF e > Len(ucs_config_global_list) THEN b
    ELSE Strict(IF \/ ucs_config_field_is_last(
                          ucs_config_global_list[e].table, 1)
                   \/ e \notin flags
                THEN b
                ELSE ucs_config_parser_search_similar_variables(
                         ucs_config_global_list[e].table, env_prefix,
                         ucs_config_global_list[e].prefix, unused_var, b,
                         max_fuzzy_distance, 1), LAMBDA b1 :
         similar_vars_entries(flags, env_prefix, unused_var, b1, e + 1))

\* [var, candidates, maybe]: the unused variable with what is appended to
\* it in the warning
ucs_config_parser_append_similar_vars_message(flags, env_prefix, unused_var) ==
    Bind(similar_vars_entries(flags, env_prefix, unused_var,
                              [candidates |-> <<>>, matches |-> <<>>], 1),
         LAMBDA b : [var |-> unused_var, candidates |-> b.candidates,
                     maybe |-> b.matches])

\* a set of names that holds none
kh_get_absent(h, key) == FALSE

\* kh_get(h, key) != kh_end(h)
kh_get(h, key) == key \in h

\* a lookup that finds no name, so that every call adds
mark_env_var_used_added_always(h, name) == TRUE

\* *added of mark_env_var_used: the name was not in the set
mark_env_var_used_added(h, name) == ~kh_get(h, name)

\* ucs_global_opts.warn_unused_env_vars || INFO logging enabled: track is
\* what the global options say
ucs_config_parser_env_vars_track(track) == track

\* what the scan reports: the unused variables of the warning and the used
\* variables of the info line; scanned tells whether the environment was
\* read
NoReport == [scanned |-> FALSE, prefix |-> NULL, unused |-> {}, used |-> {}]

ucs_config_parser_print_env_vars(env, used, flags, track, prefix) ==
    IF ~ucs_config_parser_env_vars_track(track) THEN NoReport
    ELSE Bind({n \in DOMAIN env : strncmp0(n, prefix, Len(prefix))},
         LAMBDA ucx :
         [scanned |-> TRUE,
          prefix  |-> prefix,
          unused  |-> {ucs_config_parser_append_similar_vars_message(
                           flags, prefix, n) :
                         n \in {v \in ucx : ~kh_get(used, v)}},
          used    |-> {n \in ucx : kh_get(used, n)}])

(***************************************************************************)
(* The printer.  The stream is the sequence of the lines written: the      *)
(* header, the documentation of a field with the names it inherits from,   *)
(* and the assignment lines, each with its prefix, name and value.         *)
(***************************************************************************)
UCS_CONFIG_PRINT_CONFIG == "UCS_CONFIG_PRINT_CONFIG"

UCS_CONFIG_PRINT_HEADER == "UCS_CONFIG_PRINT_HEADER"

UCS_CONFIG_PRINT_DOC == "UCS_CONFIG_PRINT_DOC"

UCS_CONFIG_PRINT_HIDDEN == "UCS_CONFIG_PRINT_HIDDEN"

UCS_CONFIG_PRINT_COMMENT_DEFAULT == "UCS_CONFIG_PRINT_COMMENT_DEFAULT"

StreamLine(kind, prefix, name, value) ==
    [kind |-> kind, prefix |-> prefix, name |-> name, value |-> value]

\* strstr(haystack, needle) != NULL
strstr(haystack, needle) ==
    \E i \in 0..(Len(haystack) - Len(needle)) :
       SubSeq(haystack, i + 1, i + Len(needle)) = needle

\* the field at the offset of the alias, searched in the order of the table
\* and in its sub-tables, with the offset of the table it was found in
RECURSIVE ucs_config_find_aliased_field(_, _, _, _)
ucs_config_find_aliased_field(t, alias_t, alias_i, i) ==
    IF ucs_config_field_is_last(t, i)
    THEN [found |-> FALSE, field |-> Table(alias_t)[alias_i], offset |-> 0]
    ELSE IF t = alias_t /\ i = alias_i
    THEN ucs_config_find_aliased_field(t, alias_t, alias_i, i + 1)
    ELSE IF ucs_config_is_table_field(Table(t)[i])
    THEN Bind(ucs_config_find_aliased_field(Table(t)[i].sub, alias_t, alias_i, 1),
              LAMBDA r :
                 IF r.found
                 THEN [r EXCEPT !.offset = @ + Table(t)[i].offset]
                 ELSE ucs_config_find_aliased_field(t, alias_t, alias_i, i + 1))
    ELSE IF Table(t)[i].offset = Table(alias_t)[alias_i].offset
    THEN [found |-> TRUE, field |-> Table(t)[i], offset |-> 0]
    ELSE ucs_config_find_aliased_field(t, alias_t, alias_i, i + 1)

\* the file map is looked up by the name of the field, the environment by
\* the name of the variable
ucs_config_parser_is_default(m, env_prefix, prefix, name) ==
    /\ name \notin DOMAIN m.fvars
    /\ getenv(m.env, env_prefix \o prefix \o name) = NULL

\* the names of the field under the prefixes after the head of the list
RECURSIVE print_field_inherits(_, _, _, _)
print_field_inherits(env_prefix, prefix_list, name, k) ==
    IF k > Len(prefix_list) THEN <<>>
    ELSE <<env_prefix \o prefix_list[k] \o name>>
             \o print_field_inherits(env_prefix, prefix_list, name, k + 1)

\* b is [out, flags, fatal]: the stream, the flags left and whether the
\* process was aborted
ucs_config_parser_print_field(b, m, opts, env_prefix, prefix_list, name, field, filter) ==
    IF filter # NULL /\ ~strstr(env_prefix \o prefix_list[1] \o name, filter)
    THEN b
    ELSE [b EXCEPT
             !.flags = @ \ {UCS_CONFIG_PRINT_HEADER},
             !.out = @
                \o (IF UCS_CONFIG_PRINT_HEADER \in b.flags
                    THEN <<StreamLine("header", "# ", <<>>, <<>>)>> ELSE <<>>)
                \o (IF UCS_CONFIG_PRINT_DOC \in b.flags
                    THEN <<StreamLine("doc", "# ", name,
                                      IF Len(prefix_list) > 1
                                      THEN print_field_inherits(
                                               env_prefix, prefix_list, name, 2)
                                      ELSE <<>>)>>
                    ELSE <<>>)
                \o <<StreamLine(
                       "assign",
                       IF /\ UCS_CONFIG_PRINT_COMMENT_DEFAULT \in b.flags
                          /\ ucs_config_parser_is_default(
                                 m, env_prefix, prefix_list[1], name)
                       THEN "# " ELSE "",
                       env_prefix \o prefix_list[1] \o name,
                       IF ucs_config_is_deprecated_field(field)
                       THEN <<" ","(","d","e","p","r","e","c","a","t","e","d",")">>
                       ELSE <<"=">> \o parser_write(field,
                                                    m.mem[opts + field.offset]))>>]

\* the list without its element k
RemoveAt(list, k) == SubSeq(list, 1, k - 1) \o SubSeq(list, k + 1, Len(list))

\* a test that lets every sub-table add its prefix
prefix_differs_always(prefix_list, name) == TRUE

\* the list is empty or the prefix of its tail is not name
prefix_differs(prefix_list, name) ==
    prefix_list = <<>> \/ prefix_list[Len(prefix_list)] # name

RECURSIVE ucs_config_parser_print_opts_recurs(_, _, _, _, _, _, _)
ucs_config_parser_print_opts_recurs(b, m, opts, t, prefix, filter, i) ==
    IF ucs_config_field_is_last(t, i) \/ b.fatal THEN b
    ELSE Strict(
           IF ucs_config_is_table_field(Table(t)[i])
           THEN Bind(prefix_differs(b.list, Table(t)[i].name),
                     LAMBDA pushed :
                Bind(ucs_config_parser_print_opts_recurs(
                         IF pushed
                         THEN [b EXCEPT
                                 !.list = Append(@, Table(t)[i].name),
                                 !.steps = Append(@, Append(b.list,
                                                     Table(t)[i].name))]
                         ELSE [b EXCEPT !.skipped = @ + 1],
                         m, opts + Table(t)[i].offset, Table(t)[i].sub,
                         prefix, filter, 1),
                     LAMBDA r :
                IF r.fatal \/ ~pushed THEN r
                ELSE [r EXCEPT
                        !.list = RemoveAt(@, Len(b.list) + 1),
                        !.steps = Append(@, RemoveAt(r.list,
                                                     Len(b.list) + 1))]))
           ELSE IF ucs_config_is_alias_field(Table(t)[i])
           THEN IF UCS_CONFIG_PRINT_HIDDEN \notin b.flags THEN b
                ELSE Bind(ucs_config_find_aliased_field(t, t, i, 1),
                          LAMBDA a :
                             IF ~a.found THEN [b EXCEPT !.fatal = TRUE]
                             ELSE ucs_config_parser_print_field(
                                      b, m, opts + a.offset, prefix,
                                      b.list, Table(t)[i].name, a.field,
                                      filter))
           ELSE IF ucs_config_is_deprecated_field(Table(t)[i]) /\
                   UCS_CONFIG_PRINT_HIDDEN \notin b.flags
           THEN b
           ELSE ucs_config_parser_print_field(
                    b, m, opts, prefix, b.list, Table(t)[i].name,
                    Table(t)[i], filter),
           LAMBDA nb :
              ucs_config_parser_print_opts_recurs(
                  nb, m, opts, t, prefix, filter, i + 1))

\* the printer's state: the lines written, the flags, whether ucs_fatal was
\* called, prefix_list, the list after each add_tail and del, and the
\* sub-tables entered without a prefix of their own
Printer(out, flags, list) ==
    [out |-> out, flags |-> flags, fatal |-> FALSE, list |-> list,
     steps |-> <<list>>, skipped |-> 0]

ucs_config_parser_print_opts(m, opts, t, table_prefix, prefix, flags, filter) ==
    IF UCS_CONFIG_PRINT_CONFIG \in flags
    THEN ucs_config_parser_print_opts_recurs(
             Printer(<<>>, flags,
                     <<IF table_prefix = NULL THEN <<>> ELSE table_prefix>>),
             m, opts, t, prefix, filter, 1)
    ELSE Printer(IF UCS_CONFIG_PRINT_HEADER \in flags
                 THEN <<StreamLine("header", "# ", <<>>, <<>>)>> ELSE <<>>,
                 flags, <<>>)

(***************************************************************************)
(* The state of the process                                                *)
(***************************************************************************)
VARIABLES
    environ,                     \* the process environment
    fs,                          \* the configuration files, by directory
    ucs_config_file_vars,        \* the file map
    ucs_config_parser_env_vars,  \* the set of used variable names
    config_file_parse,           \* the latch of the file loading
    loaded,                      \* entries with UCS_CONFIG_TABLE_FLAG_LOADED
    opts,                        \* the caller's opts struct
    last,                        \* the last call and what it returned
    frame,                       \* the call of each thread
    hist,                        \* what the calls did so far
    ucs_config_parser_env_vars_hash_lock,  \* the thread holding the mutex
    iface,                       \* the UD mlx5 interface: its receive queue
    links                        \* the prev and next pointers of the links

vars == <<environ, fs, ucs_config_file_vars, ucs_config_parser_env_vars,
          config_file_parse, loaded, opts, last, frame, hist,
          ucs_config_parser_env_vars_hash_lock, iface, links>>

\* at most this many variables are set in the environment
MaxEnvVars == 2

\* at most this many fill_opts calls are made one after the other
MaxCalls == 1

\* at most this many fill_opts calls are made by the threads together
MaxConcCalls == 3

Threads == {1, 2}

s_UCX_MODE         == s_UCX_ \o s_MODE
s_A_UCX_MODE       == s_A_UCX_ \o s_MODE
s_UCX_AMODE        == s_UCX_ \o s_AMODE
s_UCX_OLD          == s_UCX_ \o s_OLD
s_UCX_IB_QKEY      == s_UCX_ \o s_IB_ \o s_QKEY
s_UCX_QKEY         == s_UCX_ \o s_QKEY
s_UCX_UD_MLX5_QKEY == s_UCX_ \o s_UD_MLX5_ \o s_QKEY
s_UCX_UD_BACKOFF   == s_UCX_ \o s_UD_ \o s_BACKOFF

v_7      == <<"7">>
v_8      == <<"8">>
v_9      == <<"9">>
v_x      == <<"x">>
v_0_1234 == <<"0", ".", "1", "2", "3", "4">>
v_0_5    == <<"0", ".", "5">>

\* the settings the environment is drawn from
EnvPairs ==
    { <<s_UCX_MODE, v_poll>>,
      <<s_A_UCX_MODE, v_thread_mutex>>,
      <<s_UCX_AMODE, v_banana>>,
      <<s_UCX_OLD, v_7>>,
      <<s_UCX_IB_QKEY, v_7>>,
      <<s_UCX_QKEY, v_9>>, <<s_UCX_QKEY, v_x>>,
      <<s_UCX_UD_MLX5_QKEY, v_8>>,
      <<s_UCX_UD_BACKOFF, v_0_1234>> }

EnvOf(S) == [n \in {q[1] : q \in S} |-> (CHOOSE q \in S : q[1] = n)[2]]

EnvChoices ==
    { EnvOf(S) : S \in { S \in SUBSET EnvPairs :
                           /\ Cardinality(S) <= MaxEnvVars
                           /\ \A a, b \in S : a[1] = b[1] => a = b } }

NoFile == <<>>

\* the contents the configuration files are drawn from: the file of the
\* system directory and the file of the working directory
FileChoices ==
    { <<NoFile, NoFile>>,
      << <<Line(<<>>, s_UCX_MODE, v_thread_mutex)>>, NoFile >>,
      << <<Line(<<>>, s_A_UCX_MODE, v_thread_spinlock)>>, NoFile >>,
      << <<Line(<<>>, s_UCX_MODE, v_thread_mutex),
           Line(<<>>, s_UCX_QKEY, v_8)>>,
         <<Line(<<>>, s_UCX_MODE, v_thread_spinlock)>> >>,
      << <<Line(<<"a">>, UCS_CPU_VENDOR_LABEL, <<"A","M","D">>),
           Line(<<"a">>, s_UCX_QKEY, v_8),
           Line(<<"b">>, s_UCX_UD_BACKOFF, v_0_5)>>,
         <<Line(<<>>, s_UCX_MODE, v_banana)>> >> }

\* a file system: system, library, home, custom and working directory
FileSystem(c) == <<c[1], NoFile, NoFile, NoFile, c[2]>>

EmptyMap == [n \in {} |-> <<>>]

EnvPrefixes == {s_UCX_, s_A_UCX_, <<>>}

NoCall ==
    [op |-> "none", entry |-> 0, env_prefix |-> NULL, ignore_errors |-> FALSE,
     prefix |-> NULL, name |-> NULL, value |-> NULL, status |-> UCS_OK,
     out |-> NULL, pre |-> RawOpts, replaced |-> {}, leak |-> FALSE,
     dfree |-> FALSE, flags |-> {}, filter |-> NULL]

IdleFrame ==
    [pc |-> "idle", entry |-> 0, env_prefix |-> NULL, ignore_errors |-> FALSE,
     sub_prefix |-> NULL, mem |-> RawOpts, status |-> UCS_OK, call |-> 0,
     file |-> 0, name |-> NULL, pass |-> 0]

\* calls started and returned, runs of the file loading and the call that
\* made the last one, whether a call looked a name up in the file map before
\* the loading was complete, the file map as the loading left it, the
\* entries on which a call failed in its apply passes; the env_prefix of
\* each print_env_vars_once call, the prefix of each scan, the cleanups,
\* whether the sets were destroyed under the holder of the mutex, and the
\* calls that had been made when cleanup ran
NoHist ==
    [calls |-> 0, returned |-> 0, parse_runs |-> 0, parsed_by |-> 0,
     early |-> FALSE, built |-> NULL, failed |-> {}, printed |-> <<>>,
     scans |-> <<>>, cleanups |-> 0, race |-> FALSE, cleaned_at |-> 0]

(***************************************************************************)
(* The UD mlx5 interface (ud_mlx5.c): super_rx is iface->super.rx, the     *)
(* count of receive descriptors that may be posted and the free list of    *)
(* the memory pool; rx_wq is iface->rx.wq, the receive work queue with its *)
(* 16-bit producer and consumer counters, the ring of descriptors and the  *)
(* doorbell record, four bytes in network order; cq_rx is the receive      *)
(* completion queue, the wqe_counter of each completion not yet polled.    *)
(***************************************************************************)
UINT16 == 65536

\* htonl: the four bytes of a 32-bit value, the most significant first
htonl(x) == <<(x \div 16777216) % 256, (x \div 65536) % 256, (x \div 256) % 256, x % 256>>

ntohl(b) == ((b[1] * 256 + b[2]) * 256 + b[3]) * 256 + b[4]

NoIface ==
    [pc |-> "none",
     config |-> [rx_max_batch |-> 0],
     super_rx |-> [available |-> 0, mp |-> <<>>],
     rx_wq |-> [rq_wqe_counter |-> 0, cq_wqe_counter |-> 0, mask |-> 0,
                wqes |-> [i \in {0} |-> 0], dbrec |-> htonl(0)],
     cq_rx |-> <<>>]

\* no link is initialised
NoLinks == [e \in {} |-> 0]

InitCommon ==
    /\ ucs_config_file_vars = EmptyMap
    /\ ucs_config_parser_env_vars = {}
    /\ config_file_parse = UCS_INIT_ONCE_INITIALIZER
    /\ loaded = {}
    /\ opts = [mem |-> RawOpts, entry |-> 0, filled |-> FALSE]
    /\ last = NoCall
    /\ frame = [t \in Threads |-> IdleFrame]
    /\ hist = NoHist
    /\ ucs_config_parser_env_vars_hash_lock = 0
    /\ iface = NoIface
    /\ links = NoLinks

Init ==
    /\ environ \in EnvChoices
    /\ fs \in {FileSystem(c) : c \in FileChoices}
    /\ InitCommon

\* the process as a call sees it, with opts as the caller's struct
Process(mem) ==
    [m |-> Machine(mem, ucs_config_parser_env_vars, ucs_config_file_vars,
                   environ),
     once |-> config_file_parse, fs |-> fs, loaded |-> loaded]

Alive == last.status # SIGSEGV

\* fill_opts on a struct the caller has just allocated
FillOptsCall(entry, env_prefix, ignore_errors) ==
    /\ Alive
    /\ \E p \in {ucs_config_parser_fill_opts(Process(RawOpts), entry,
                                             env_prefix, ignore_errors)} :
       LET ran == p.once.initialized /\ ~config_file_parse.initialized
       IN /\ ucs_config_file_vars' = p.m.fvars
          /\ ucs_config_parser_env_vars' = p.m.used
          /\ config_file_parse' = p.once
          /\ loaded' = p.loaded
          /\ opts' = [mem |-> p.m.mem, entry |-> entry,
                      filled |-> p.m.status = UCS_OK]
          /\ last' = [NoCall EXCEPT !.op = "fill_opts", !.entry = entry,
                                    !.env_prefix = env_prefix,
                                    !.ignore_errors = ignore_errors,
                                    !.status = p.m.status,
                                    !.leak = p.m.leak, !.dfree = p.m.dfree]
          /\ hist' = [hist EXCEPT
                         !.calls = @ + 1,
                         !.returned = @ + 1,
                         !.parse_runs = IF ran THEN @ + 1 ELSE @,
                         !.parsed_by = IF ran THEN hist.calls + 1 ELSE @,
                         !.built = IF ran THEN p.m.fvars ELSE @]
    /\ UNCHANGED <<ucs_config_parser_env_vars_hash_lock, iface, links>>
    /\ UNCHANGED <<environ, fs, frame>>

FillOpts(entry, env_prefix, ignore_errors) ==
    /\ hist.calls < MaxCalls
    /\ FillOptsCall(entry, env_prefix, ignore_errors)

ReleaseOpts ==
    /\ Alive
    /\ opts.filled
    /\ \E m \in {ucs_config_parser_release_opts(
                       Machine(opts.mem, ucs_config_parser_env_vars,
                               ucs_config_file_vars, environ),
                       0, ucs_config_global_list[opts.entry].table)} :
          /\ opts' = [opts EXCEPT !.mem = m.mem, !.filled = FALSE]
          /\ last' = [NoCall EXCEPT !.op = "release_opts",
                                    !.entry = opts.entry, !.pre = opts.mem,
                                    !.leak = m.leak, !.dfree = m.dfree]
    /\ UNCHANGED <<ucs_config_parser_env_vars_hash_lock, iface, links>>
    /\ UNCHANGED <<environ, fs, ucs_config_file_vars,
                   ucs_config_parser_env_vars, config_file_parse, loaded,
                   frame, hist>>

\* the prefix, the name patterns and the values set_value is called with
s_STAR_O_STAR == <<"*", "O", "*">>
s_STAR_QKEY   == <<"*">> \o s_QKEY
s_IB_QKEY     == s_IB_ \o s_QKEY
s_STAR_BACKOFF == <<"*">> \o s_BACKOFF
s_STAR        == <<"*">>
s_NOPE        == <<"N", "O", "P", "E">>

SetNames ==
    {s_STAR_O_STAR, s_STAR_QKEY, s_IB_QKEY, s_STAR_BACKOFF, s_STAR, s_NOPE}

SetValues == {v_poll, v_7, v_0_1234, v_x}


\* the names get_value is called with
GetNames ==
    {s_MODE, <<"M", "O", "D">>, <<>>, s_IB_QKEY, s_QKEY, s_AMODE, s_OLD,
     <<"I">>, s_UD_ \o s_MODE, s_UD_ \o s_IB_QKEY}

\* what the bytes in front of an opts struct may hold
WildSlots == {[RawSlot EXCEPT !.n = 0], [RawSlot EXCEPT !.n = 7]}

SetValue(use_prefix, name, value) ==
    /\ Alive
    /\ opts.filled
    /\ \E prefix \in {IF use_prefix
                      THEN ucs_config_global_list[opts.entry].prefix
                      ELSE NULL} :
       \E m \in {ucs_config_parser_set_value(
                     Machine(opts.mem, ucs_config_parser_env_vars,
                             ucs_config_file_vars, environ),
                     ucs_config_global_list[opts.entry].table, prefix, name,
                     value)} :
          /\ opts' = [opts EXCEPT !.mem = m.mem]
          /\ last' = [NoCall EXCEPT !.op = "set_value", !.entry = opts.entry,
                                    !.prefix = prefix, !.name = name,
                                    !.value = value, !.status = m.status,
                                    !.pre = opts.mem,
                                    !.replaced = m.replaced,
                                    !.leak = m.leak, !.dfree = m.dfree]
    /\ UNCHANGED <<ucs_config_parser_env_vars_hash_lock, iface, links>>
    /\ UNCHANGED <<environ, fs, ucs_config_file_vars,
                   ucs_config_parser_env_vars, config_file_parse, loaded,
                   frame, hist>>

GetValue(name, wild) ==
    /\ Alive
    /\ opts.filled
    /\ \E m \in {ucs_config_parser_get_value(
                     Machine(opts.mem, ucs_config_parser_env_vars,
                             ucs_config_file_vars, environ),
                     0, ucs_config_global_list[opts.entry].table, name,
                     wild)} :
          last' = [NoCall EXCEPT !.op = "get_value", !.entry = opts.entry,
                                 !.name = name, !.status = m.status,
                                 !.out = m.out]
    /\ UNCHANGED <<ucs_config_parser_env_vars_hash_lock, iface, links>>
    /\ UNCHANGED <<environ, fs, ucs_config_file_vars,
                   ucs_config_parser_env_vars, config_file_parse, loaded,
                   opts, frame, hist>>

Next ==
    \/ \E entry \in Entries, env_prefix \in EnvPrefixes,
          ignore_errors \in BOOLEAN :
           FillOpts(entry, env_prefix, ignore_errors)
    \/ ReleaseOpts

Spec == Init /\ [][Next]_vars

\* the programmatic surface, on a process without settings
InitSet ==
    /\ environ = EmptyMap
    /\ fs = FileSystem(<<NoFile, NoFile>>)
    /\ InitCommon

NextSet ==
    \/ \E entry \in Entries : FillOpts(entry, s_UCX_, FALSE)
    \/ \E use_prefix \in BOOLEAN, name \in SetNames, value \in SetValues :
           SetValue(use_prefix, name, value)
    \/ \E name \in GetNames, wild \in WildSlots : GetValue(name, wild)
    \/ ReleaseOpts

SpecSet == InitSet /\ [][NextSet]_vars

(***************************************************************************)
(* What the claims speak of: the leaf fields of an entry with the slot     *)
(* they reach and the table prefixes that qualify their name, the names    *)
(* of a variable, the parse of a text.                                     *)
(***************************************************************************)

\* the leaves under table t at slot base; tps are the prefixes that qualify
\* a name at this depth: the names of the tables on the path and the prefix
\* of the entry
RECURSIVE LeafPaths(_, _, _, _)
LeafPaths(t, base, tps, i) ==
    IF i > Len(Table(t)) THEN {}
    ELSE LET f == Table(t)[i]
         IN (IF f.parser = "table"
             THEN LeafPaths(f.sub, base + f.offset, tps \cup {f.name}, 1)
             ELSE {[slot |-> base + f.offset, field |-> f, tps |-> tps]})
            \cup LeafPaths(t, base, tps, i + 1)

LeavesOf ==
    [e \in Entries |->
        LeafPaths(ucs_config_global_list[e].table, 0,
                  {ucs_config_global_list[e].prefix}, 1)]

IsReal(l) == l.field.dfl_value # NULL /\ l.field.offset # -1

\* the segment before the last '_' of a prefix of several segments
SubPrefixes(env_prefix) ==
    LET seg == strtok(env_prefix, "_")
    IN IF Len(seg) >= 2 THEN {Append(seg[Len(seg)], "_")} ELSE {}

VarNames(l, prefixes) ==
    {pre \o tp \o l.field.name : pre \in prefixes, tp \in l.tps}

\* every name that reaches the slot: of the field and of its aliases, under
\* each prefix
SlotNames(e, slot, prefixes) ==
    UNION {VarNames(l, prefixes) :
               l \in {k \in LeavesOf[e] : k.slot = slot /\ k.field.offset # -1}}

EnvText(name) == IF name \in DOMAIN environ THEN environ[name] ELSE NULL

FileText(name) ==
    IF name \in DOMAIN ucs_config_file_vars
    THEN ucs_config_file_vars[name] ELSE NULL

Found(name) == EnvText(name) # NULL \/ FileText(name) # NULL

Val(slot) == <<slot.n, slot.s>>

ParseText(field, text) ==
    parser_read(Machine(RawOpts, {}, EmptyMap, EmptyMap), field, text, 0)

Parses(field, text) == ParseText(field, text).ret = 1

Parsed(field, text) == Val(ParseText(field, text).mem[0])

\* the opts struct as default-setting leaves it
DefaultsOf ==
    [e \in Entries |->
        ucs_config_parser_set_default_values(
            Machine(RawOpts, {}, EmptyMap, EmptyMap), 0,
            ucs_config_global_list[e].table).mem]

FillReturned(status) == last.op = "fill_opts" /\ last.status = status

\* the leaf is set under the one name full, or under no name at all, and
\* every text involved parses
OnlyUnder(l, full) ==
    /\ \A n \in SlotNames(last.entry, l.slot,
                          {last.env_prefix} \cup SubPrefixes(last.env_prefix))
                \ {full} : ~Found(n)
    /\ EnvText(full) # NULL => Parses(l.field, EnvText(full))
    /\ FileText(full) # NULL => Parses(l.field, FileText(full))
    /\ Parses(l.field, l.field.dfl_value)

\* the value the precedence E > F > dflt gives the leaf
Precedence(l, full, dflt) ==
    IF EnvText(full) # NULL THEN Parsed(l.field, EnvText(full))
    ELSE IF FileText(full) # NULL THEN Parsed(l.field, FileText(full))
    ELSE dflt

\* C1 (as amended): after fill_opts returned OK, a real leaf that is set
\* under one fully-qualified name only holds parse(E) if E is present, else
\* parse(F) if F is present, else the value default-setting left in the slot
\* (the parse of its default text, unless the default text of an enclosing
\* table sets the field).
C1_Precedence ==
    FillReturned(UCS_OK) =>
        \A l \in {k \in LeavesOf[last.entry] : IsReal(k)} :
            \A full \in VarNames(l, {last.env_prefix}) :
                OnlyUnder(l, full) =>
                    Val(opts.mem[l.slot]) =
                        Precedence(l, full, Val(DefaultsOf[last.entry][l.slot]))

\* C1 as stated: the last resort is the parse of the field's own default text
C1_AsStated ==
    FillReturned(UCS_OK) =>
        \A l \in {k \in LeavesOf[last.entry] : IsReal(k)} :
            \A full \in VarNames(l, {last.env_prefix}) :
                OnlyUnder(l, full) =>
                    Val(opts.mem[l.slot]) =
                        Precedence(l, full, Parsed(l.field, l.field.dfl_value))

\* a call where the environment text won over a different file text
C1_Witness ==
    /\ FillReturned(UCS_OK)
    /\ \E l \in {k \in LeavesOf[last.entry] : IsReal(k)} :
          \E full \in VarNames(l, {last.env_prefix}) :
              /\ OnlyUnder(l, full)
              /\ EnvText(full) # NULL /\ FileText(full) # NULL
              /\ Parsed(l.field, EnvText(full)) # Parsed(l.field, FileText(full))
              /\ Val(opts.mem[l.slot]) = Parsed(l.field, EnvText(full))

\* the texts found under the names full and sub of a leaf, at most one of
\* them in the file map, parse, and no other name of the slot is set
OnlyUnderTwo(l, full, sub) ==
    /\ \A n \in SlotNames(last.entry, l.slot,
                          {last.env_prefix} \cup SubPrefixes(last.env_prefix))
                \ {full, sub} : ~Found(n)
    /\ \A n \in {full, sub} :
          /\ EnvText(n) # NULL => Parses(l.field, EnvText(n))
          /\ FileText(n) # NULL => Parses(l.field, FileText(n))
    /\ ~(FileText(full) # NULL /\ FileText(sub) # NULL)

\* C2: with a two-segment env_prefix the final value of a field comes from
\* the highest-precedence source present: environment under the full prefix,
\* then environment under the sub-prefix, then the file map (under either
\* name), then the default.
C2_SourceOrder ==
    FillReturned(UCS_OK) =>
        \A sp \in SubPrefixes(last.env_prefix) :
        \A l \in {k \in LeavesOf[last.entry] : IsReal(k)} :
        \A tp \in l.tps :
            LET full == last.env_prefix \o tp \o l.field.name
                sub  == sp \o tp \o l.field.name
            IN OnlyUnderTwo(l, full, sub) =>
                   Val(opts.mem[l.slot]) =
                       IF EnvText(full) # NULL
                       THEN Parsed(l.field, EnvText(full))
                       ELSE IF EnvText(sub) # NULL
                       THEN Parsed(l.field, EnvText(sub))
                       ELSE IF FileText(full) # NULL
                       THEN Parsed(l.field, FileText(full))
                       ELSE IF FileText(sub) # NULL
                       THEN Parsed(l.field, FileText(sub))
                       ELSE Val(DefaultsOf[last.entry][l.slot])

\* a non-deprecated leaf (an alias included) for which a text was found under
\* exactly one of its slot's names, and the text does not parse
BadFound(l) ==
    LET names == SlotNames(last.entry, l.slot,
                           {last.env_prefix} \cup SubPrefixes(last.env_prefix))
    IN /\ l.field.offset # -1
       /\ \E n \in VarNames(l, {last.env_prefix}
                               \cup SubPrefixes(last.env_prefix)) :
             /\ Found(n)
             /\ \A o \in names \ {n} : ~Found(o)
             /\ ~Parses(l.field,
                        IF EnvText(n) # NULL THEN EnvText(n) ELSE FileText(n))

NoSlotLive == \A s \in OptsSlots : ~opts.mem[s].live

\* C3: when a value found for a field does not parse, fill_opts with
\* ignore_errors=false returns InvalidParam with opts released, and with
\* ignore_errors=true it returns OK with the slot at the parse of the
\* field's default text.
C3_InvalidValue ==
    (/\ last.op = "fill_opts"
     /\ Len(last.env_prefix) >= 2
     /\ \E l \in LeavesOf[last.entry] : BadFound(l)) =>
        IF last.ignore_errors
        THEN /\ last.status = UCS_OK
             /\ \A l \in LeavesOf[last.entry] :
                   (BadFound(l) /\ IsReal(l)) =>
                       Val(opts.mem[l.slot]) =
                           Parsed(l.field, l.field.dfl_value)
        ELSE /\ last.status = UCS_ERR_INVALID_PARAM
             /\ NoSlotLive

\* C4: a fill_opts call that returned a non-OK status has released every
\* slot it populated: no slot of opts still owns a value.
C4_ReleasedOnFailure ==
    (last.op = "fill_opts" /\
     last.status \in {UCS_ERR_INVALID_PARAM, UCS_ERR_NO_ELEM}) => NoSlotLive

\* C5: for a field of a sub-table T of an entry with prefix P, when the
\* environment holds valid values under both <env_prefix><T><N> and
\* <env_prefix><P><N>, after fill_opts returned OK the slot holds the value
\* of <env_prefix><P><N> and both names are in the set of used names.
C5_ParentPrefixWins ==
    FillReturned(UCS_OK) =>
        LET P == ucs_config_global_list[last.entry].prefix
        IN \A l \in {k \in LeavesOf[last.entry] : IsReal(k)} :
           \A T \in l.tps \ {P} :
               LET nT == last.env_prefix \o T \o l.field.name
                   nP == last.env_prefix \o P \o l.field.name
               IN (/\ EnvText(nT) # NULL /\ Parses(l.field, EnvText(nT))
                   /\ EnvText(nP) # NULL /\ Parses(l.field, EnvText(nP))) =>
                      /\ Val(opts.mem[l.slot]) = Parsed(l.field, EnvText(nP))
                      /\ {nT, nP} \subseteq ucs_config_parser_env_vars

\* both names set to different values, and the parent-prefix one in the slot
C5_Witness ==
    /\ FillReturned(UCS_OK)
    /\ LET P == ucs_config_global_list[last.entry].prefix
       IN \E l \in {k \in LeavesOf[last.entry] : IsReal(k)} :
          \E T \in l.tps \ {P} :
              LET nT == last.env_prefix \o T \o l.field.name
                  nP == last.env_prefix \o P \o l.field.name
              IN /\ EnvText(nT) # NULL /\ Parses(l.field, EnvText(nT))
                 /\ EnvText(nP) # NULL /\ Parses(l.field, EnvText(nP))
                 /\ Parsed(l.field, EnvText(nT)) # Parsed(l.field, EnvText(nP))
                 /\ Val(opts.mem[l.slot]) = Parsed(l.field, EnvText(nP))
                 /\ {nT, nP} \subseteq ucs_config_parser_env_vars

\* C9: after a fill_opts call that returned OK, every variable name of a
\* field of the entry (deprecated fields and aliases included, under the
\* full prefix or the sub-prefix) for which a value was found in the
\* environment or in the file map is in the set of used names.
C9_FoundNamesUsed ==
    FillReturned(UCS_OK) =>
        \A l \in LeavesOf[last.entry] :
            \A n \in VarNames(l, {last.env_prefix}
                                 \cup SubPrefixes(last.env_prefix)) :
                Found(n) => n \in ucs_config_parser_env_vars

\* a call that found a deprecated field's name under the sub-prefix and a
\* name in the file map only
C9_Witness ==
    /\ FillReturned(UCS_OK)
    /\ \E l \in LeavesOf[last.entry] :
          /\ l.field.offset = -1
          /\ \E n \in VarNames(l, SubPrefixes(last.env_prefix)) :
                EnvText(n) # NULL /\ n \in ucs_config_parser_env_vars
    /\ \E l \in LeavesOf[last.entry] :
          \E n \in VarNames(l, {last.env_prefix}) :
              /\ EnvText(n) = NULL /\ FileText(n) # NULL
              /\ n \in ucs_config_parser_env_vars

(***************************************************************************)
(* The programmatic surface                                                *)
(***************************************************************************)

\* the leaves set_value reaches from the table of the entry, with the
\* prefixes that qualify their name: none for a leaf of the top table when
\* the caller passes no prefix
SetLeaves(e, prefix) ==
    LeafPaths(ucs_config_global_list[e].table, 0,
              IF prefix = NULL THEN {} ELSE {prefix}, 1)

Matches(l, pattern) ==
    IF l.tps = {} THEN fnmatch0(pattern, l.field.name)
    ELSE \E tp \in l.tps : fnmatch0(pattern, tp \o l.field.name)

MatchedFields(e, prefix, pattern) ==
    {l \in SetLeaves(e, prefix) : l.field.offset # -1 /\ Matches(l, pattern)}

MatchedDeprecated(e, prefix, pattern) ==
    {l \in SetLeaves(e, prefix) : l.field.offset = -1 /\ Matches(l, pattern)}

C7_RestoredOnFailure ==
    (last.op = "set_value" /\ last.status = UCS_ERR_INVALID_PARAM) =>
        \A s \in OptsSlots \ last.replaced :
            Val(opts.mem[s]) = Val(last.pre[s])

\* the leaves of table t with the names of the sub-tables on their path
RECURSIVE PathLeaves(_, _, _, _)
PathLeaves(t, base, path, i) ==
    IF i > Len(Table(t)) THEN {}
    ELSE LET f == Table(t)[i]
         IN (IF f.parser = "table"
             THEN PathLeaves(f.sub, base + f.offset, path \o f.name, 1)
             ELSE {[slot |-> base + f.offset, field |-> f,
                    name |-> path \o f.name]})
            \cup PathLeaves(t, base, path, i + 1)

\* the real fields of the entry under their exact name
ExactFields(e) ==
    {l \in PathLeaves(ucs_config_global_list[e].table, 0, <<>>, 1) :
        l.field.dfl_value # NULL /\ l.field.offset # -1}

\* C8: get_value returns OK with the canonical text of the slot for the
\* exact name of a real field, and NoSuchElement with nothing written to the
\* output buffer for every other name.
C8_ExactNameOnly ==
    last.op = "get_value" =>
        IF \E l \in ExactFields(last.entry) : l.name = last.name
        THEN /\ last.status = UCS_OK
             /\ \E l \in ExactFields(last.entry) :
                   /\ l.name = last.name
                   /\ last.out = parser_write(l.field, opts.mem[l.slot])
        ELSE /\ last.status = UCS_ERR_NO_ELEM
             /\ last.out = NULL

(***************************************************************************)
(* fill_opts calls of several threads, step by step: the defaults and the  *)
(* sub-prefix, the latch, the files one by one under the lock of the       *)
(* latch, the apply passes.                                                *)
(***************************************************************************)
InitConc ==
    /\ environ \in {EmptyMap, EnvOf({<<s_UCX_MODE, v_poll>>})}
    /\ fs \in {FileSystem(c) : c \in FileChoices}
    /\ InitCommon

Call(t, entry, env_prefix, ignore_errors) ==
    /\ frame[t].pc = "idle"
    /\ hist.calls < MaxConcCalls
    /\ frame' = [frame EXCEPT ![t] =
                    [IdleFrame EXCEPT !.pc = "defaults", !.entry = entry,
                                      !.env_prefix = env_prefix,
                                      !.ignore_errors = ignore_errors,
                                      !.call = hist.calls + 1]]
    /\ hist' = [hist EXCEPT !.calls = @ + 1]
    /\ UNCHANGED <<ucs_config_parser_env_vars_hash_lock, iface, links>>
    /\ UNCHANGED <<environ, fs, ucs_config_file_vars,
                   ucs_config_parser_env_vars, config_file_parse, loaded,
                   opts, last>>

Defaults(t) ==
    /\ frame[t].pc = "defaults"
    /\ \E d \in {fill_opts_defaults(Process(frame[t].mem), frame[t].entry,
                                    frame[t].env_prefix)} :
          IF d.p.m.status # UCS_OK
          THEN /\ frame' = [frame EXCEPT ![t] =
                               [IdleFrame EXCEPT !.status = d.p.m.status]]
               /\ hist' = [hist EXCEPT !.returned = @ + 1]
          ELSE /\ frame' = [frame EXCEPT ![t].pc = "once",
                                         ![t].mem = d.p.m.mem,
                                         ![t].sub_prefix = d.sub_prefix]
               /\ hist' = hist
    /\ UNCHANGED <<ucs_config_parser_env_vars_hash_lock, iface, links>>
    /\ UNCHANGED <<environ, fs, ucs_config_file_vars,
                   ucs_config_parser_env_vars, config_file_parse, loaded,
                   opts, last>>

\* the lock of the latch is taken; the body is entered with the lock held,
\* or the lock is dropped at once when the latch is initialized
OnceEnter(t) ==
    /\ frame[t].pc = "once"
    /\ config_file_parse.lock = 0
    /\ IF UCS_INIT_ONCE(config_file_parse)
       THEN /\ config_file_parse' = [config_file_parse EXCEPT !.lock = t]
            /\ frame' = [frame EXCEPT ![t].pc = "parse", ![t].file = 1]
            /\ hist' = [hist EXCEPT !.parse_runs = @ + 1,
                                    !.parsed_by = frame[t].call]
       ELSE /\ frame' = [frame EXCEPT ![t].pc = "apply"]
            /\ UNCHANGED <<config_file_parse, hist>>
    /\ UNCHANGED <<ucs_config_parser_env_vars_hash_lock, iface, links>>
    /\ UNCHANGED <<environ, fs, ucs_config_file_vars,
                   ucs_config_parser_env_vars, loaded, opts, last>>

\* one configuration file is read into the file map; after the last one
\* the latch is initialized and its lock dropped
ParseFile(t) ==
    /\ frame[t].pc = "parse"
    /\ \E map \in {ucs_config_parse_config_file(
                       ucs_config_file_vars, fs[frame[t].file], 1)} :
          /\ ucs_config_file_vars' = map
          /\ IF frame[t].file = Len(fs)
             THEN /\ config_file_parse' =
                         [initialized |-> TRUE, lock |-> 0]
                  /\ frame' = [frame EXCEPT ![t].pc = "apply"]
                  /\ hist' = [hist EXCEPT !.built = map]
             ELSE /\ frame' = [frame EXCEPT ![t].file = @ + 1]
                  /\ UNCHANGED <<config_file_parse, hist>>
    /\ UNCHANGED <<ucs_config_parser_env_vars_hash_lock, iface, links>>
    /\ UNCHANGED <<environ, fs, ucs_config_parser_env_vars, loaded, opts,
                   last>>

Apply(t) ==
    /\ frame[t].pc = "apply"
    /\ \E p \in {fill_opts_apply(Process(frame[t].mem), frame[t].entry,
                                 frame[t].env_prefix, frame[t].sub_prefix,
                                 frame[t].ignore_errors)} :
          /\ ucs_config_parser_env_vars' = p.m.used
          /\ loaded' = p.loaded
          /\ frame' = [frame EXCEPT ![t] =
                          [IdleFrame EXCEPT !.status = p.m.status]]
          /\ hist' = [hist EXCEPT
                         !.returned = @ + 1,
                         !.early = @ \/ ~config_file_parse.initialized,
                         !.failed = IF p.m.status = UCS_OK THEN @
                                    ELSE @ \cup {frame[t].entry}]
    /\ UNCHANGED <<ucs_config_parser_env_vars_hash_lock, iface, links>>
    /\ UNCHANGED <<environ, fs, ucs_config_file_vars, config_file_parse,
                   opts, last>>

NextConc ==
    \/ \E t \in Threads, entry \in Entries, env_prefix \in {s_UCX_, <<>>} :
           \E ignore_errors \in BOOLEAN :
              Call(t, entry, env_prefix, ignore_errors)
    \/ \E t \in Threads : Defaults(t)
    \/ \E t \in Threads : OnceEnter(t)
    \/ \E t \in Threads : ParseFile(t)
    \/ \E t \in Threads : Apply(t)

SpecConc == InitConc /\ [][NextConc]_vars

\* C10 (as amended): the files are parsed by the first fill_opts call that
\* reaches the latch and by no other, at most once; the loading is complete
\* before any call looks a name up in the file map, and the file map stays
\* as the loading left it.
C10_FilesParsedOnce ==
    /\ hist.parse_runs <= 1
    /\ ~hist.early
    /\ config_file_parse.initialized =>
          /\ hist.parse_runs = 1
          /\ ucs_config_file_vars = hist.built
    /\ \A t \in Threads :
          frame[t].pc = "apply" => config_file_parse.initialized
    /\ \A t \in Threads :
          frame[t].pc = "parse" =>
              /\ config_file_parse.lock = t
              /\ hist.parsed_by = frame[t].call

\* C10 as stated: the files are parsed by the first fill_opts call of the
\* process, exactly once: once a call has returned they have been parsed,
\* by call number one
C10_AsStated ==
    /\ C10_FilesParsedOnce
    /\ hist.parse_runs >= 1 => hist.parsed_by = 1
    /\ hist.returned >= 1 => hist.parse_runs = 1

\* the first call has returned without reaching the latch, the second one
\* has parsed the files while the third waited, and both have applied
C10_Witness ==
    /\ hist.returned = MaxConcCalls
    /\ hist.parse_runs = 1
    /\ hist.parsed_by = 2
    /\ config_file_parse.initialized
    /\ ucs_config_file_vars # EmptyMap
    /\ ucs_config_file_vars = hist.built
    /\ \E n \in DOMAIN ucs_config_file_vars : n \in ucs_config_parser_env_vars

(***************************************************************************)
(* The loading of the configuration files on its own: the body of the      *)
(* latch in the thread that entered it, over files of a few lines.         *)
(***************************************************************************)

\* at most this many lines in a configuration file
MaxLines == 3

SEQ_OF(S, n) == UNION {[1..k -> S] : k \in 0..n}

FileLines ==
    { Line(<<>>, s_UCX_MODE, v_thread_mutex),
      Line(<<>>, s_UCX_MODE, v_poll),
      Line(<<"a">>, UCS_CPU_VENDOR_LABEL, <<"A","M","D">>),
      Line(<<"a">>, s_UCX_QKEY, v_7),
      Line(<<"b">>, s_UCX_QKEY, v_9) }

ShortFiles ==
    { NoFile, <<Line(<<>>, s_UCX_MODE, v_poll)>>,
      <<Line(<<"a">>, s_UCX_QKEY, v_7)>> }

\* the directories that hold a file in the file systems of the loading
FileDirs == {1, 3, 5}

\* the lines in front of the first section header come first
IniOrdered(f) ==
    \A j, k \in 1..Len(f) :
        (j < k /\ f[k].section = <<>>) => f[j].section = <<>>

FileSystems ==
    { [d \in 1..5 |-> IF d = i THEN f ELSE IF d = j THEN g ELSE NoFile] :
          i \in FileDirs, j \in FileDirs,
          f \in {x \in SEQ_OF(FileLines, MaxLines) : IniOrdered(x)},
          g \in ShortFiles }

\* thread 1 has entered the body of the latch
InitFile ==
    /\ environ = EmptyMap
    /\ fs \in {x \in FileSystems : TRUE}
    /\ ucs_config_file_vars = EmptyMap
    /\ ucs_config_parser_env_vars = {}
    /\ config_file_parse = [UCS_INIT_ONCE_INITIALIZER EXCEPT !.lock = 1]
    /\ loaded = {}
    /\ opts = [mem |-> RawOpts, entry |-> 0, filled |-> FALSE]
    /\ last = NoCall
    /\ frame = [t \in Threads |->
                   IF t = 1 THEN [IdleFrame EXCEPT !.pc = "parse", !.file = 1]
                   ELSE IdleFrame]
    /\ hist = [NoHist EXCEPT !.parse_runs = 1]
    /\ ucs_config_parser_env_vars_hash_lock = 0
    /\ iface = NoIface
    /\ links = NoLinks

NextFile == ParseFile(1)

SpecFile == InitFile /\ [][NextFile]_vars

\* every file has been read
FilesLoaded == frame[1].pc = "apply"

\* the places <<d, k>> of the lines of the file system
Places == {<<d, k>> : d \in 1..5, k \in 1..MaxLines + 1}

IsPlace(pl) == pl[2] <= Len(fs[pl[1]])

LineAt(pl) == fs[pl[1]][pl[2]]

NoFilterLines ==
    \A pl \in Places : IsPlace(pl) => LineAt(pl).name # UCS_CPU_VENDOR_LABEL

\* the place of the definition of name the claim keeps: in the last file
\* that defines it, the first one
KeptPlace(name) ==
    CHOOSE pl \in Places :
        /\ IsPlace(pl) /\ LineAt(pl).name = name
        /\ \A q \in Places :
              (IsPlace(q) /\ LineAt(q).name = name) =>
                  \/ q[1] < pl[1]
                  \/ q[1] = pl[1] /\ q[2] >= pl[2]

\* C11: a second definition of a name in the same file is rejected and the
\* first value kept, a definition in a file loaded later replaces the value
\* of an earlier file, the files being loaded in the order system, library,
\* home, custom, working directory: the file map holds, for every name, the
\* first definition of the last file that defines it.
C11_DuplicatesRejected ==
    (FilesLoaded /\ NoFilterLines) =>
        /\ DOMAIN ucs_config_file_vars =
               {LineAt(pl).name : pl \in {q \in Places : IsPlace(q)}}
        /\ \A name \in DOMAIN ucs_config_file_vars :
               ucs_config_file_vars[name] = LineAt(KeptPlace(name)).value

\* the line is a host-attribute line that does not match the host
FilterFails(line) == ucs_config_parse_check_filter(line.name, line.value) = 1

\* an earlier line of the same file and the same section failed to match
SectionFailed(pl) ==
    \E j \in 1..(pl[2] - 1) :
        /\ fs[pl[1]][j].section = LineAt(pl).section
        /\ FilterFails(fs[pl[1]][j])

\* no other line of the file system gives the name the same value
OnlyLineWith(pl) ==
    \A q \in Places :
        (IsPlace(q) /\ q # pl /\ LineAt(q).name = LineAt(pl).name) =>
            LineAt(q).value # LineAt(pl).value

OnlyLineNamed(pl) ==
    \A q \in Places :
        (IsPlace(q) /\ q # pl) => LineAt(q).name # LineAt(pl).name

Recorded(pl) ==
    /\ LineAt(pl).name \in DOMAIN ucs_config_file_vars
    /\ ucs_config_file_vars[LineAt(pl).name] = LineAt(pl).value

\* C12: once a host-attribute line of a section has failed to match, no
\* later line of that section in the file is recorded in the file map; a
\* line of a section without such a failure before it, in its own file, is
\* recorded: the skip state carries over neither to the next section nor to
\* the next file.
C12_SectionSkipped ==
    FilesLoaded =>
        \A pl \in {q \in Places : IsPlace(q)} :
            /\ (SectionFailed(pl) /\ OnlyLineWith(pl)) => ~Recorded(pl)
            /\ (~SectionFailed(pl) /\ ~FilterFails(LineAt(pl))
                  /\ OnlyLineNamed(pl)) => Recorded(pl)


(***************************************************************************)
(* The LOADED flag of the entries.                                         *)
(***************************************************************************)
\* thread t returns from fill_opts in this step
Returns(t) == frame[t].pc # "idle" /\ frame'[t].pc = "idle"

\* C13: the LOADED flag of an entry is set only by the step in which a
\* fill_opts call on that entry returns OK, after its apply passes; a call
\* that returns OK leaves the flag set, a call that fails leaves every flag
\* as it was, and no step clears a flag.
C13_LoadedOnlyOnSuccess ==
    [][/\ loaded \subseteq loaded'
       /\ \A e \in loaded' \ loaded :
             \E t \in Threads :
                /\ frame[t].pc = "apply" /\ frame[t].entry = e
                /\ Returns(t) /\ frame'[t].status = UCS_OK
       /\ \A t \in Threads :
             Returns(t) =>
                IF frame'[t].status = UCS_OK
                THEN frame[t].entry \in loaded'
                ELSE loaded' = loaded]_vars

\* an entry has its flag, set by one call, and another call on it has failed
\* in its apply passes and returned
C13_Witness ==
    /\ loaded \cap hist.failed # {}
    /\ \A t \in Threads : frame[t].pc = "idle"


(***************************************************************************)
(* print_env_vars_once calls of several threads next to fill_opts and      *)
(* cleanup: a name is marked and the environment is scanned inside the     *)
(* critical sections of the mutex, each entered by a step of its own.      *)
(***************************************************************************)
MaxPrintCalls == 2

MaxCleanups == 1

s_UCX_MODX         == s_UCX_ \o <<"M","O","D","X">>
s_UCX_IB_QKEX      == s_UCX_ \o s_IB_ \o <<"Q","K","E","X">>

DiagEnvPairs ==
    { <<s_UCX_MODE, v_poll>>, <<s_UCX_IB_QKEY, v_7>>,
      <<s_UCX_MODX, v_poll>>, <<s_UCX_IB_QKEX, v_7>>,
      <<s_A_UCX_MODE, v_thread_mutex>> }

InitDiag ==
    /\ environ \in {EnvOf(S) : S \in {S \in SUBSET DiagEnvPairs :
                                         Cardinality(S) <= MaxEnvVars}}
    /\ fs = FileSystem(<< <<Line(<<>>, s_UCX_QKEY, v_8)>>, NoFile >>)
    /\ InitCommon

\* fill_opts takes the mutex for each name it marks
FillOptsLocked(entry, env_prefix) ==
    /\ ucs_config_parser_env_vars_hash_lock = 0
    /\ FillOpts(entry, env_prefix, TRUE)

PrintEnvVarsOnce(t, env_prefix) ==
    /\ Alive
    /\ frame[t].pc = "idle"
    /\ Len(hist.printed) < MaxPrintCalls
    /\ frame' = [frame EXCEPT ![t] =
                    [IdleFrame EXCEPT !.pc = "mark", !.env_prefix = env_prefix,
                                      !.name = env_prefix, !.pass = 1]]
    /\ hist' = [hist EXCEPT !.printed = Append(@, env_prefix)]
    /\ UNCHANGED <<ucs_config_parser_env_vars_hash_lock, iface, links>>
    /\ UNCHANGED <<environ, fs, ucs_config_file_vars,
                   ucs_config_parser_env_vars, config_file_parse, loaded,
                   opts, last>>

\* pthread_mutex_lock in mark_env_var_used
MarkLock(t) ==
    /\ Alive
    /\ frame[t].pc = "mark"
    /\ ucs_config_parser_env_vars_hash_lock = 0
    /\ ucs_config_parser_env_vars_hash_lock' = t
    /\ UNCHANGED <<iface, links>>
    /\ frame' = [frame EXCEPT ![t].pc = "marking"]
    /\ UNCHANGED <<environ, fs, ucs_config_file_vars,
                   ucs_config_parser_env_vars, config_file_parse, loaded,
                   opts, last, hist>>

\* the outcomes of a critical section: a set destroyed under it is a race
Outcomes == IF hist.race THEN {UCS_OK, SIGSEGV} ELSE {UCS_OK}

\* the name is looked up and inserted, the mutex released; the call goes on
\* to the scan when the name was added
MarkUsed(t) ==
    /\ Alive
    /\ frame[t].pc = "marking"
    /\ \E status \in Outcomes :
       \E added \in {mark_env_var_used_added(ucs_config_parser_env_vars,
                                             frame[t].name)} :
          /\ ucs_config_parser_env_vars' =
                ucs_config_parser_mark_env_var_used(
                    Machine(RawOpts, ucs_config_parser_env_vars,
                            ucs_config_file_vars, environ),
                    frame[t].name).used
          /\ frame' = [frame EXCEPT ![t] =
                          IF added /\ status = UCS_OK
                          THEN [@ EXCEPT !.pc = "scan"] ELSE IdleFrame]
          /\ last' = IF status = UCS_OK THEN last
                     ELSE [NoCall EXCEPT !.op = "print_env_vars_once",
                                         !.status = status]
    /\ ucs_config_parser_env_vars_hash_lock' = 0
    /\ UNCHANGED <<iface, links>>
    /\ hist' = [hist EXCEPT !.race = FALSE]
    /\ UNCHANGED <<environ, fs, ucs_config_file_vars, config_file_parse,
                   loaded, opts>>

\* where print_env_vars_once goes after the scan of a prefix
after_scan(f) ==
    Bind(ucs_config_parser_get_sub_prefix(f.env_prefix), LAMBDA sp :
    IF f.pass = 1 /\ sp.status = UCS_OK /\ sp.sub_prefix # NULL
    THEN [f EXCEPT !.pc = "mark", !.name = sp.sub_prefix, !.pass = 2]
    ELSE IdleFrame)

\* print_env_vars up to pthread_mutex_lock: it returns at once when the
\* variables are not tracked
PrintEnvVars(t) ==
    /\ Alive
    /\ frame[t].pc = "scan"
    /\ \E track \in BOOLEAN :
          IF ucs_config_parser_env_vars_track(track)
          THEN /\ ucs_config_parser_env_vars_hash_lock = 0
               /\ ucs_config_parser_env_vars_hash_lock' = t
               /\ frame' = [frame EXCEPT ![t].pc = "scanning"]
          ELSE /\ frame' = [frame EXCEPT ![t] = after_scan(@)]
               /\ UNCHANGED ucs_config_parser_env_vars_hash_lock
    /\ UNCHANGED <<environ, fs, ucs_config_file_vars,
                   ucs_config_parser_env_vars, config_file_parse, loaded,
                   opts, last, hist, iface, links>>

\* the loop over environ, the mutex released, the warning and the info line
Scan(t) ==
    /\ Alive
    /\ frame[t].pc = "scanning"
    /\ \E status \in Outcomes :
          /\ last' = [NoCall EXCEPT
                         !.op = "print_env_vars", !.prefix = frame[t].name,
                         !.status = status,
                         !.out = ucs_config_parser_print_env_vars(
                                     environ, ucs_config_parser_env_vars,
                                     loaded, TRUE, frame[t].name)]
          /\ frame' = [frame EXCEPT ![t] = after_scan(@)]
    /\ ucs_config_parser_env_vars_hash_lock' = 0
    /\ UNCHANGED <<iface, links>>
    /\ hist' = [hist EXCEPT !.scans = Append(@, frame[t].name),
                            !.race = FALSE]
    /\ UNCHANGED <<environ, fs, ucs_config_file_vars,
                   ucs_config_parser_env_vars, config_file_parse, loaded,
                   opts>>

\* a cleanup that also resets the latch of the file loading
cleanup_resets_latch ==
    /\ Alive
    /\ hist.cleanups < MaxCleanups
    /\ ucs_config_parser_env_vars' = {}
    /\ ucs_config_file_vars' = EmptyMap
    /\ config_file_parse' = UCS_INIT_ONCE_INITIALIZER
    /\ hist' = [hist EXCEPT
                   !.cleanups = @ + 1,
                   !.race = @ \/ ucs_config_parser_env_vars_hash_lock # 0,
                   !.cleaned_at = hist.calls]
    /\ UNCHANGED <<ucs_config_parser_env_vars_hash_lock, iface, links>>
    /\ UNCHANGED <<environ, fs, loaded, opts, last, frame>>

\* cleanup destroys the set and the map; it takes no lock
Cleanup ==
    /\ Alive
    /\ hist.cleanups < MaxCleanups
    /\ ucs_config_parser_env_vars' = {}
    /\ ucs_config_file_vars' = EmptyMap
    /\ hist' = [hist EXCEPT
                   !.cleanups = @ + 1,
                   !.race = @ \/ ucs_config_parser_env_vars_hash_lock # 0,
                   !.cleaned_at = hist.calls]
    /\ UNCHANGED <<ucs_config_parser_env_vars_hash_lock, iface, links>>
    /\ UNCHANGED <<environ, fs, config_file_parse, loaded, opts, last,
                   frame>>

\* the calls of one thread, over the environments
NextDiag ==
    \/ \E entry \in Entries : FillOptsLocked(entry, s_UCX_)
    \/ \E env_prefix \in {s_UCX_, s_A_UCX_} : PrintEnvVarsOnce(1, env_prefix)
    \/ MarkLock(1)
    \/ MarkUsed(1)
    \/ PrintEnvVars(1)
    \/ Scan(1)

SpecDiag == InitDiag /\ [][NextDiag]_vars

\* the calls of several threads and cleanup, in one environment
InitOnce ==
    /\ environ = EnvOf({<<s_UCX_MODE, v_poll>>, <<s_UCX_MODX, v_poll>>})
    /\ fs = FileSystem(<< <<Line(<<>>, s_UCX_QKEY, v_8)>>, NoFile >>)
    /\ InitCommon

NextOnce ==
    \/ FillOptsLocked(1, s_UCX_)
    \/ \E t \in Threads, env_prefix \in {s_UCX_, s_A_UCX_} :
           PrintEnvVarsOnce(t, env_prefix)
    \/ \E t \in Threads : MarkLock(t)
    \/ \E t \in Threads : MarkUsed(t)
    \/ \E t \in Threads : PrintEnvVars(t)
    \/ \E t \in Threads : Scan(t)
    \/ Cleanup

SpecOnce == InitOnce /\ [][NextOnce]_vars


(***************************************************************************)
(* fill_opts calls before and after cleanup                                *)
(***************************************************************************)
CleanupEnvs ==
    { EmptyMap,
      EnvOf({<<s_UCX_MODE, v_poll>>}),
      EnvOf({<<s_UCX_UD_MLX5_QKEY, v_9>>, <<s_A_UCX_MODE, v_signal>>}) }

CleanupFiles ==
    { <<NoFile, NoFile>>,
      << <<Line(<<>>, s_UCX_MODE, v_thread_mutex),
           Line(<<>>, s_UCX_QKEY, v_8)>>, NoFile >>,
      << <<Line(<<>>, s_UCX_UD_MLX5_QKEY, v_7)>>,
         <<Line(<<>>, s_UCX_IB_QKEY, v_9)>> >> }

InitCleanup ==
    /\ environ \in CleanupEnvs
    /\ fs \in {FileSystem(c) : c \in CleanupFiles}
    /\ InitCommon

\* a fill_opts call made after cleanup
FillOptsAfterCleanup(entry, env_prefix) ==
    /\ hist.cleanups > 0
    /\ hist.calls < hist.cleaned_at + MaxCalls
    /\ FillOptsCall(entry, env_prefix, FALSE)

NextCleanup ==
    \/ \E entry \in Entries, env_prefix \in {s_UCX_, s_A_UCX_} :
          FillOpts(entry, env_prefix, FALSE)
    \/ Cleanup
    \/ \E entry \in Entries, env_prefix \in {s_UCX_, s_A_UCX_} :
          FillOptsAfterCleanup(entry, env_prefix)

SpecCleanup == InitCleanup /\ [][NextCleanup]_vars

\* the process without configuration files, its latch set
NoFiles(mem) ==
    [Process(mem) EXCEPT !.m.fvars = EmptyMap,
                         !.once.initialized = TRUE,
                         !.m.used = {},
                         !.fs = FileSystem(<<NoFile, NoFile>>)]

\* the last call was a fill_opts made after a cleanup that found the latch
\* set
FilledAfterCleanup ==
    /\ last.op = "fill_opts"
    /\ hist.cleanups > 0
    /\ hist.calls > hist.cleaned_at
    /\ hist.parsed_by # 0 /\ hist.parsed_by <= hist.cleaned_at

ScanStep(t) == frame[t].pc = "scanning" /\ frame'[t].pc # "scanning"

StartsWith(name, prefix) ==
    Len(name) >= Len(prefix) /\ SubSeq(name, 1, Len(prefix)) = prefix

Range(q) == {q[k] : k \in 1..Len(q)}

\* a is turned into b by at most k insertions, deletions, substitutions and
\* transpositions of adjacent characters
RECURSIVE WithinEdits(_, _, _)
WithinEdits(a, b, k) ==
    IF a = <<>> THEN Len(b) <= k
    ELSE IF b = <<>> THEN Len(a) <= k
    ELSE IF Head(a) = Head(b) THEN WithinEdits(Tail(a), Tail(b), k)
    ELSE /\ k > 0
         /\ \/ WithinEdits(Tail(a), b, k - 1)
            \/ WithinEdits(a, Tail(b), k - 1)
            \/ WithinEdits(Tail(a), Tail(b), k - 1)
            \/ /\ Len(a) >= 2 /\ Len(b) >= 2
               /\ a[1] = b[2] /\ a[2] = b[1]
               /\ WithinEdits(Tail(Tail(a)), Tail(Tail(b)), k - 1)

\* C14: a scan for a prefix with tracking active reports as unused exactly
\* the variables of the environment whose name starts with the prefix and
\* is not in the set of used names, and every name suggested for an unused
\* variable is within 3 edits of it.
C14_UnusedReported ==
    [][\A t \in Threads :
          (ScanStep(t) /\ last'.status = UCS_OK) =>
             /\ {u.var : u \in last'.out.unused} =
                   {n \in DOMAIN environ :
                       /\ StartsWith(n, frame[t].name)
                       /\ n \notin ucs_config_parser_env_vars}
             /\ \A u \in last'.out.unused :
                   \A name \in Range(u.maybe) :
                      WithinEdits(u.var, name, 3)]_vars

\* a scan has reported a variable with a suggestion and has left out a
\* variable that an apply pass used
C14_Witness ==
    /\ last.op = "print_env_vars"
    /\ last.out.used # {}
    /\ \E u \in last.out.unused : u.maybe # <<>>

\* the fields under table t with the prefix that qualifies their name: the
\* name of the sub-table they are in, or the prefix of the entry
RECURSIVE QualifiedFields(_, _, _)
QualifiedFields(t, qual, i) ==
    IF i > Len(Table(t)) THEN {}
    ELSE (IF Table(t)[i].parser = "table"
          THEN QualifiedFields(Table(t)[i].sub, Table(t)[i].name, 1)
          ELSE {qual \o Table(t)[i].name})
         \cup QualifiedFields(t, qual, i + 1)

\* C15: the names compared with an unused variable are exactly the
\* fully-qualified names of the fields of the entries that are LOADED, a
\* field of a sub-table under env prefix + sub-table prefix + field name.
C15_CandidatesQualified ==
    [][\A t \in Threads :
          (ScanStep(t) /\ last'.status = UCS_OK) =>
             \A u \in last'.out.unused :
                Range(u.candidates) =
                   {frame[t].name \o q :
                       q \in UNION {QualifiedFields(
                                        ucs_config_global_list[e].table,
                                        ucs_config_global_list[e].prefix, 1) :
                                      e \in loaded}}]_vars

\* the calls that are about to scan for a prefix or are scanning for it
Scanning(prefix) ==
    {t \in Threads : frame[t].pc \in {"scan", "scanning"}
                     /\ frame[t].name = prefix}

\* C16: as long as the set of used names is not destroyed, the scan for a
\* prefix string is reached by at most one print_env_vars_once call, as the
\* env_prefix or as the sub-prefix of the call, and is performed at most
\* once.
C16_ScannedOnce ==
    hist.cleanups = 0 =>
       \A prefix \in Range(hist.printed) \cup {s_UCX_} :
          Cardinality(Scanning(prefix))
             + Cardinality({k \in 1..Len(hist.scans) :
                               hist.scans[k] = prefix}) <= 1

\* two calls with the same env_prefix have returned and the prefix was
\* scanned for
C16_Witness ==
    /\ hist.cleanups = 0
    /\ Len(hist.printed) = 2
    /\ hist.printed[1] = hist.printed[2]
    /\ hist.printed[1] \in Range(hist.scans)
    /\ \A t \in Threads : frame[t].pc = "idle"

\* C17: the file map and the set of used names are modified only under the
\* mutex, so that no step changes either of them while another thread is
\* inside a critical section of the mutex.
C17_MutationsUnderMutex ==
    [][(\/ ucs_config_parser_env_vars' # ucs_config_parser_env_vars
        \/ ucs_config_file_vars' # ucs_config_file_vars) =>
          \A t \in Threads :
             ucs_config_parser_env_vars_hash_lock = t =>
                frame'[t] # frame[t]]_vars


(***************************************************************************)
(* The values an opts struct owns: set_value through the name and the      *)
(* alias of a string field, clone_opts and the release of the clone.       *)
(***************************************************************************)
s_UCX_NAME  == s_UCX_ \o s_NAME
s_UCX_ANAME == s_UCX_ \o s_ANAME
s_STAR_E    == <<"*", "E">>

\* the allocations of one clone that may fail
MaxAllocs == 4

OwnNames == {s_NAME, s_ANAME, s_STAR_E, s_MODE, s_STAR_QKEY, s_NOPE}

OwnValues == {v_poll, v_x, v_7}

InitOwn ==
    /\ environ \in {EmptyMap, EnvOf({<<s_UCX_NAME, v_x>>}),
                    EnvOf({<<s_UCX_ANAME, v_x>>})}
    /\ fs = FileSystem(<<NoFile, NoFile>>)
    /\ InitCommon

\* clone_opts into a struct the caller has just allocated; the clone is kept
\* in the record of the call
CloneOpts(fail) ==
    /\ Alive
    /\ opts.filled
    /\ \E c \in {ucs_config_parser_clone_opts(
                     opts.mem, Cloning(RawOpts, fail), 0,
                     ucs_config_global_list[opts.entry].table)} :
          last' = [NoCall EXCEPT
                      !.op = "clone_opts", !.entry = opts.entry,
                      !.pre = opts.mem, !.status = c.status,
                      !.out = c.mem]
    /\ UNCHANGED <<ucs_config_parser_env_vars_hash_lock, iface, links>>
    /\ UNCHANGED <<environ, fs, ucs_config_file_vars,
                   ucs_config_parser_env_vars, config_file_parse, loaded,
                   opts, frame, hist>>

\* release_opts on the clone
ReleaseClone ==
    /\ Alive
    /\ last.op = "clone_opts"
    /\ last.status = UCS_OK
    /\ \E m \in {ucs_config_parser_release_opts(
                     Machine(last.out, ucs_config_parser_env_vars,
                             ucs_config_file_vars, environ),
                     0, ucs_config_global_list[last.entry].table)} :
          last' = [NoCall EXCEPT !.op = "release_clone",
                                 !.entry = last.entry, !.pre = last.out,
                                 !.out = m.mem, !.leak = m.leak,
                                 !.dfree = m.dfree]
    /\ UNCHANGED <<ucs_config_parser_env_vars_hash_lock, iface, links>>
    /\ UNCHANGED <<environ, fs, ucs_config_file_vars,
                   ucs_config_parser_env_vars, config_file_parse, loaded,
                   opts, frame, hist>>

NextOwn ==
    \/ \E entry \in Entries : FillOpts(entry, s_UCX_, FALSE)
    \/ \E use_prefix \in BOOLEAN, name \in OwnNames, value \in OwnValues :
           SetValue(use_prefix, name, value)
    \/ \E fail \in 0..MaxAllocs : CloneOpts(fail)
    \/ ReleaseClone
    \/ ReleaseOpts

SpecOwn == InitOwn /\ [][NextOwn]_vars

\* the real fields of entry e, and those whose value is a heap block
RealLeaves(e) ==
    {l \in PathLeaves(ucs_config_global_list[e].table, 0, <<>>, 1) : IsReal(l)}

HeapLeaves(e) == {l \in RealLeaves(e) : l.field.parser = "string"}

NoneLive(mem) == \A slot \in OptsSlots : ~mem[slot].live

\* C18: from the return of a fill_opts that succeeded until release_opts,
\* after any set_value calls, the slot of every real field holds a value
\* and the slot of every heap field owns a live block; no call overwrites a
\* live block or frees one that is not live; release_opts frees every block
\* once, and a clone owns its own blocks, all freed by release_opts on it.
C18_SlotsOwned ==
    /\ opts.filled =>
          /\ \A l \in RealLeaves(opts.entry) : opts.mem[l.slot].init
          /\ \A l \in HeapLeaves(opts.entry) : opts.mem[l.slot].live
    /\ (\/ last.op \in {"set_value", "release_opts", "release_clone"}
        \/ (last.op = "fill_opts" /\ last.status = UCS_OK)) =>
          ~last.leak /\ ~last.dfree
    /\ last.op = "release_opts" =>
          /\ \A l \in HeapLeaves(last.entry) : last.pre[l.slot].live
          /\ NoneLive(opts.mem)
    /\ (last.op = "clone_opts" /\ last.status = UCS_OK) =>
          \A l \in RealLeaves(last.entry) :
             /\ Val(last.out[l.slot]) = Val(last.pre[l.slot])
             /\ l \in HeapLeaves(last.entry) => last.out[l.slot].live
    /\ last.op = "release_clone" => NoneLive(last.out)

\* the clone of a struct whose string field was set by set_value has been
\* released
C18_Witness ==
    /\ last.op = "release_clone"
    /\ \E l \in HeapLeaves(last.entry) :
          last.pre[l.slot].live /\ last.pre[l.slot].s = v_poll

(***************************************************************************)
(* The parsers with symbolic values: a text is read, the value is written  *)
(* and the text written is read again                                      *)
(***************************************************************************)
ParserNames ==
    {"uint", "ulunits", "ternary_auto", "on_off_auto", "enum", "time_units",
     "allow_list", "range_spec"}

\* parser->read(buf, dest, arg) into a dest no read has written yet
read(parser, buf) ==
    CASE parser = "uint" ->
             [ret |-> ucs_config_sscanf_uint(buf, RawSlot).ret,
              v   |-> ucs_config_sscanf_uint(buf, RawSlot).slot.n]
      [] parser = "ulunits"      -> ucs_config_sscanf_ulunits(buf, 0)
      [] parser = "ternary_auto" -> ucs_config_sscanf_ternary_auto(buf, 0)
      [] parser = "on_off_auto"  -> ucs_config_sscanf_on_off_auto(buf, 0)
      [] parser = "enum" ->
             [ret |-> ucs_config_sscanf_enum(buf, RawSlot, ucs_async_mode_names).ret,
              v   |-> ucs_config_sscanf_enum(buf, RawSlot, ucs_async_mode_names).slot.n]
      [] parser = "time_units"   -> ucs_config_sscanf_time_units(buf, 0)
      [] parser = "allow_list"   -> ucs_config_sscanf_allow_list(buf, 0)
      [] parser = "range_spec"   -> ucs_config_sscanf_range_spec(buf, 0)

\* parser->write(buf, max, src, arg), the text written
write(parser, src) ==
    CASE parser = "uint" ->
             ucs_config_sprintf_uint([RawSlot EXCEPT !.n = src])
      [] parser = "ulunits"      -> ucs_config_sprintf_ulunits(src)
      [] parser = "ternary_auto" -> ucs_config_sprintf_ternary_auto(src)
      [] parser = "on_off_auto"  -> ucs_config_sprintf_on_off_auto(src)
      [] parser = "enum" ->
             ucs_config_sprintf_enum([RawSlot EXCEPT !.n = src],
                                     ucs_async_mode_names)
      [] parser = "time_units"   -> ucs_config_sprintf_time_units(src)
      [] parser = "allow_list"   -> ucs_config_sprintf_allow_list(src)
      [] parser = "range_spec"   -> ucs_config_sprintf_range_spec(src)

\* the texts the parsers are given
ParserTexts(parser) ==
    CASE parser = "uint" ->
             {UCS_NUMERIC_INF_STR, <<"I","N","F">>, <<"0">>, <<"7">>,
              <<"4","2","9","4","9","6","7","2","9","5">>,
              <<"4","2","9","4","9","6","7","2","9","4">>, <<"x">>}
      [] parser = "ulunits" ->
             {UCS_VALUE_AUTO_STR, UCS_NUMERIC_INF_STR, <<"A","u","t","o">>,
              <<"8">>, ULONG_MAX_STR, ULONG_MAX_1_STR, <<"x">>}
      [] parser = "ternary_auto" ->
             {UCS_VALUE_AUTO_STR, <<"t","r","y">>, <<"y">>, <<"n">>,
              <<"m","a","y","b","e">>, <<"y","e","s">>, <<"o","f","f">>,
              <<"O","N">>}
      [] parser = "on_off_auto" ->
             {<<"o","n">>, <<"o","f","f">>, UCS_VALUE_AUTO_STR,
              <<"t","r","y">>, <<"1">>, <<"n">>, <<"O","N">>, <<"2">>}
      [] parser = "enum" ->
             {ucs_async_mode_names[i] : i \in 1..Len(ucs_async_mode_names)}
                 \cup {<<"P","O","L","L">>, <<"b","a","n","a","n","a">>}
      [] parser = "time_units" ->
             {UCS_NUMERIC_INF_STR, UCS_VALUE_AUTO_STR,
              <<"2",".","0","0","u","s">>, <<"0",".","5","0","u","s">>,
              <<"1","m","s">>, <<"3","0","n","s">>, <<"x">>}
      [] parser = "allow_list" ->
             {UCS_CONFIG_PARSER_ALL, <<"^","a","l","l">>, <<"a",",","b">>,
              <<"^","a">>, <<>>, <<"a","l","l",",","a">>,
              <<"a",",",",","b">>, <<"a",",","a","l","l">>}
      [] parser = "range_spec" ->
             {<<"5">>, <<"1","-","3">>, <<"3","-","3">>, <<"3","-","1">>,
              <<"2","1","4","7","4","8","3","6","4","7">>,
              <<"3","0","0","0","0","0","0","0","0","0">>,
              <<"1","-","4","2","9","4","9","6","7","2","9","5">>,
              <<"-","1">>, <<"x">>}

NoRead == [ret |-> 0, v |-> 0]

InitParse ==
    /\ environ = EmptyMap
    /\ fs = FileSystem(<<NoFile, NoFile>>)
    /\ InitCommon

\* a parser reads a text
ParserRead(parser, x) ==
    /\ last.op = "none"
    /\ last' = [op |-> "read", parser |-> parser, x |-> x,
                r |-> read(parser, x), w |-> NULL, rr |-> NoRead]
    /\ UNCHANGED <<ucs_config_parser_env_vars_hash_lock, iface, links>>
    /\ UNCHANGED <<environ, fs, ucs_config_file_vars,
                   ucs_config_parser_env_vars, config_file_parse, loaded,
                   opts, frame, hist>>

\* the value read is written
ParserWrite ==
    /\ last.op = "read"
    /\ last.r.ret = 1
    /\ last' = [last EXCEPT !.op = "write",
                            !.w = write(last.parser, last.r.v)]
    /\ UNCHANGED <<ucs_config_parser_env_vars_hash_lock, iface, links>>
    /\ UNCHANGED <<environ, fs, ucs_config_file_vars,
                   ucs_config_parser_env_vars, config_file_parse, loaded,
                   opts, frame, hist>>

\* the text written is read
ParserReread ==
    /\ last.op = "write"
    /\ last' = [last EXCEPT !.op = "reread",
                            !.rr = read(last.parser, last.w)]
    /\ UNCHANGED <<ucs_config_parser_env_vars_hash_lock, iface, links>>
    /\ UNCHANGED <<environ, fs, ucs_config_file_vars,
                   ucs_config_parser_env_vars, config_file_parse, loaded,
                   opts, frame, hist>>

NextParse ==
    \/ \E parser \in ParserNames : \E x \in ParserTexts(parser) :
          ParserRead(parser, x)
    \/ ParserWrite
    \/ ParserReread

SpecParse == InitParse /\ [][NextParse]_vars

\* C19: for the parsers with symbolic values and for range-spec, every value
\* v that read produces is read again from the text write makes of it, so
\* that this text, a canonical text, is the text written for the value read
\* from it: read(write(v)) = v and write(read(x)) = x
C19_RoundTrip ==
    last.op = "reread" =>
        /\ last.rr.ret = 1
        /\ last.rr.v = last.r.v
        /\ write(last.parser, last.rr.v) = last.w

\* the round trip of every parser other than range-spec
C19_OtherParsers ==
    (last.op = "reread" /\ last.parser # "range_spec") =>
        /\ last.rr.ret = 1
        /\ last.rr.v = last.r.v
        /\ write(last.parser, last.rr.v) = last.w

\* a range-spec above INT_MAX was written
C19_Witness ==
    /\ last.op = "reread"
    /\ last.parser = "range_spec"
    /\ last.r.v.first < 0

(***************************************************************************)
(* The printer on a struct that fill_opts has filled                       *)
(***************************************************************************)
SIGABRT == "SIGABRT"

\* the environments, the files of the system directory and the arguments
\* of the printer
PrintEnvs ==
    { EmptyMap,
      EnvOf({<<s_UCX_MODE, v_poll>>}),
      EnvOf({<<s_UCX_IB_QKEY, v_7>>}),
      EnvOf({<<s_UCX_UD_MLX5_QKEY, v_8>>, <<s_UCX_OLD, v_7>>}) }

PrintFiles ==
    { <<NoFile, NoFile>>,
      << <<Line(<<>>, s_UCX_MODE, v_thread_mutex)>>, NoFile >>,
      << <<Line(<<>>, s_MODE, v_poll)>>, NoFile >>,
      << <<Line(<<>>, s_UCX_UD_MLX5_QKEY, v_9)>>, NoFile >> }

PrintFlags ==
    { {},
      {UCS_CONFIG_PRINT_HEADER},
      {UCS_CONFIG_PRINT_CONFIG},
      {UCS_CONFIG_PRINT_CONFIG, UCS_CONFIG_PRINT_COMMENT_DEFAULT},
      {UCS_CONFIG_PRINT_CONFIG, UCS_CONFIG_PRINT_COMMENT_DEFAULT,
       UCS_CONFIG_PRINT_HIDDEN},
      {UCS_CONFIG_PRINT_CONFIG, UCS_CONFIG_PRINT_COMMENT_DEFAULT,
       UCS_CONFIG_PRINT_HEADER, UCS_CONFIG_PRINT_DOC} }

PrintFilters == {NULL, s_QKEY}

InitPrint ==
    /\ environ \in PrintEnvs
    /\ fs \in {FileSystem(c) : c \in PrintFiles}
    /\ InitCommon

\* print_opts on the struct of the last fill_opts call, with the prefix of
\* its entry and the env_prefix of the call
PrintOpts(flags, filter) ==
    /\ Alive
    /\ opts.filled
    /\ last.op \in {"fill_opts", "print_opts"}
    /\ last.status = UCS_OK
    /\ \E b \in {ucs_config_parser_print_opts(
                     Machine(opts.mem, ucs_config_parser_env_vars,
                             ucs_config_file_vars, environ),
                     0, ucs_config_global_list[opts.entry].table,
                     ucs_config_global_list[opts.entry].prefix,
                     last.env_prefix, flags, filter)} :
          last' = [NoCall EXCEPT
                      !.op = "print_opts", !.entry = opts.entry,
                      !.env_prefix = last.env_prefix, !.flags = flags,
                      !.filter = filter, !.out = b.out,
                      !.status = IF b.fatal THEN SIGABRT ELSE UCS_OK]
    /\ UNCHANGED <<ucs_config_parser_env_vars_hash_lock, iface, links>>
    /\ UNCHANGED <<environ, fs, ucs_config_file_vars,
                   ucs_config_parser_env_vars, config_file_parse, loaded,
                   opts, frame, hist>>

NextPrint ==
    \/ \E entry \in Entries, env_prefix \in {s_UCX_, s_A_UCX_} :
          FillOpts(entry, env_prefix, FALSE)
    \/ \E flags \in PrintFlags, filter \in PrintFilters :
          PrintOpts(flags, filter)

SpecPrint == InitPrint /\ [][NextPrint]_vars

\* C20: with COMMENT_DEFAULT, print_opts writes "# " in front of the
\* assignment line of a field if and only if neither the environment nor
\* the file map has an entry under the name of the line,
\* <env_prefix><table prefix><name>
C20_CommentIffNotFound ==
    (last.op = "print_opts" /\
     UCS_CONFIG_PRINT_COMMENT_DEFAULT \in last.flags) =>
        \A k \in 1..Len(last.out) :
           last.out[k].kind = "assign" =>
              (last.out[k].prefix = "# " <=> ~Found(last.out[k].name))

\* without a file map, the line is commented if and only if the environment
\* has no variable of the name of the line
C20_EnvironmentOnly ==
    (last.op = "print_opts" /\
     UCS_CONFIG_PRINT_COMMENT_DEFAULT \in last.flags /\
     DOMAIN ucs_config_file_vars = {}) =>
        \A k \in 1..Len(last.out) :
           last.out[k].kind = "assign" =>
              (last.out[k].prefix = "# " <=> EnvText(last.out[k].name) = NULL)

\* a line of a field whose value the file map gave was printed
C20_Witness ==
    /\ last.op = "print_opts"
    /\ UCS_CONFIG_PRINT_COMMENT_DEFAULT \in last.flags
    /\ \E k \in 1..Len(last.out) :
          /\ last.out[k].kind = "assign"
          /\ FileText(last.out[k].name) # NULL

(***************************************************************************)
(* fill_opts under prefixes of one, two and three segments, with and       *)
(* without the '_' at the end                                              *)
(***************************************************************************)
s_B_A_UCX_ == <<"B","_">> \o s_A_UCX_
s_UCX      == <<"U","C","X">>
s_A_UCX    == <<"A","_","U","C","X">>
s_A__      == <<"A","_","_">>

SubEnvPrefixes ==
    {s_UCX_, s_A_UCX_, s_B_A_UCX_, s_UCX, s_A_UCX, s_A__, <<"_">>, <<"X">>,
     <<>>}

SubEnvs ==
    { EmptyMap,
      EnvOf({<<s_UCX_MODE, v_poll>>}),
      EnvOf({<<s_UCX \o s_MODE, v_thread_mutex>>}),
      EnvOf({<<s_A_UCX_MODE, v_thread_spinlock>>}),
      EnvOf({<<s_UCX_MODE, v_poll>>, <<s_B_A_UCX_ \o s_MODE, v_thread_mutex>>}),
      EnvOf({<<<<"_">> \o s_MODE, v_poll>>, <<s_UCX_QKEY, v_7>>}) }

InitSub ==
    /\ environ \in SubEnvs
    /\ fs = FileSystem(<<NoFile, NoFile>>)
    /\ InitCommon

\* the first fill_opts call of the process
FillOptsFirst(entry, env_prefix, ignore_errors) ==
    /\ hist.calls = 0
    /\ FillOptsCall(entry, env_prefix, ignore_errors)

NextSub ==
    \E entry \in Entries, env_prefix \in SubEnvPrefixes,
       ignore_errors \in BOOLEAN :
        FillOptsFirst(entry, env_prefix, ignore_errors)

SpecSub == InitSub /\ [][NextSub]_vars

\* the places of the '_' of s among its first n characters
Underscores(s, n) == {i \in 1..n : s[i] = "_"}

Max(S) == CHOOSE x \in S : \A y \in S : y <= x

\* the suffix after the last '_' in front of the last two characters
SubPrefixOf(p) ==
    IF Underscores(p, Len(p) - 2) = {} THEN NULL
    ELSE SubSeq(p, Max(Underscores(p, Len(p) - 2)) + 1, Len(p))

\* the variables of the environment that name a field of the entry under
\* one of the prefixes
NamedUnder(e, prefixes) ==
    {n \in DOMAIN environ :
        \E l \in LeavesOf[e] : n \in VarNames(l, prefixes)}

\* C21: a fill_opts call with an env_prefix of at least two characters
\* takes as sub-prefix the suffix that starts after the last '_' in front
\* of its last two characters, <B>_ for <A>_<B>_, and runs the sub-prefix
\* pass with it; without such a '_' (one segment, no '_' at all) the sub-prefix
\* is absent, the pass is skipped and the call returns OK; an env_prefix of
\* fewer than two characters makes the call return InvalidParam.
C21_SubPrefix ==
    last.op = "fill_opts" =>
        /\ Len(last.env_prefix) < 2 => last.status = UCS_ERR_INVALID_PARAM
        /\ Len(last.env_prefix) >= 2 =>
              /\ ucs_config_parser_get_sub_prefix(last.env_prefix) =
                    [status |-> UCS_OK,
                     sub_prefix |-> SubPrefixOf(last.env_prefix)]
              /\ last.status = UCS_OK
              /\ ucs_config_parser_env_vars =
                    NamedUnder(last.entry,
                               {last.env_prefix, SubPrefixOf(last.env_prefix)}
                                   \ {NULL})

\* the suffix after the penultimate '_' of the whole prefix
PenultimateSuffix(p) ==
    IF Cardinality(Underscores(p, Len(p))) < 2 THEN NULL
    ELSE SubSeq(p, Max(Underscores(p, Len(p)) \ {Max(Underscores(p, Len(p)))}) + 1,
                Len(p))

\* C21 as stated: the sub-prefix is the suffix after the penultimate '_',
\* and with a prefix of one segment or without a '_' the call skips the
\* pass and returns no error
C21_AsStated ==
    last.op = "fill_opts" =>
        /\ Len(last.env_prefix) >= 2 =>
              ucs_config_parser_get_sub_prefix(last.env_prefix).sub_prefix =
                  PenultimateSuffix(last.env_prefix)
        /\ Cardinality(Underscores(last.env_prefix, Len(last.env_prefix))) < 2 =>
              /\ last.status = UCS_OK
              /\ ucs_config_parser_env_vars =
                    NamedUnder(last.entry, {last.env_prefix})

\* a call under a prefix of three segments took a value under the last one
C21_Witness ==
    /\ FillReturned(UCS_OK)
    /\ last.env_prefix = s_B_A_UCX_
    /\ s_UCX_MODE \in ucs_config_parser_env_vars
    /\ s_B_A_UCX_ \o s_MODE \in ucs_config_parser_env_vars

(***************************************************************************)
(* Clones that run out of memory: an array of strings, a key-value map of  *)
(* strings and the opts struct of a table are cloned while the allocation  *)
(* numbered fail returns NULL.  The record of the call keeps the           *)
(* destination as the clone left it; each call is made on a destination   *)
(* that holds nothing.                                                     *)
(***************************************************************************)
CloneStrings == {<<"a">>, <<"b">>}

MaxElems == 3

StringSlot(s) == [RawSlot EXCEPT !.s = s, !.live = TRUE, !.init = TRUE]

\* the arrays of up to MaxElems strings, each element in its own block
CloneArrays ==
    { [data  |-> Len(ss) > 0, count |-> Len(ss),
       elems |-> [i \in 1..Len(ss) |-> StringSlot(ss[i])]] :
      ss \in UNION {[1..k -> CloneStrings] : k \in 0..MaxElems} }

\* the key-value maps of two and three keys
CloneMaps ==
    { [i \in 1..Len(ss) |-> StringSlot(ss[i])] :
      ss \in UNION {[1..k -> CloneStrings] : k \in 2..MaxElems} }

CloneTables == {"ctx", "ud_mlx5", "names"}

\* the struct of table t after set_default_values
TableDefaults(t) ==
    ucs_config_parser_set_default_values(
        Machine(RawOpts, {}, EmptyMap, EmptyMap), 0, t).mem

InitComp ==
    /\ environ = EmptyMap
    /\ fs = FileSystem(<<NoFile, NoFile>>)
    /\ InitCommon

CloneArray(src, fail) ==
    /\ last.op = "none"
    /\ \E c \in {ucs_config_clone_array(src, Cloning(RawArray, fail))} :
          last' = [NoCall EXCEPT !.op = "clone_array", !.pre = src,
                                 !.value = fail, !.status = c.status,
                                 !.out = c.mem]
    /\ UNCHANGED <<ucs_config_parser_env_vars_hash_lock, iface, links>>
    /\ UNCHANGED <<environ, fs, ucs_config_file_vars,
                   ucs_config_parser_env_vars, config_file_parse, loaded,
                   opts, frame, hist>>

CloneKeyValue(src, fail) ==
    /\ last.op = "none"
    /\ \E c \in {ucs_config_clone_key_value(
                     src, Cloning([i \in 1..Len(src) |-> RawSlot], fail), 1)} :
          last' = [NoCall EXCEPT !.op = "clone_key_value", !.pre = src,
                                 !.value = fail, !.status = c.status,
                                 !.out = c.mem]
    /\ UNCHANGED <<ucs_config_parser_env_vars_hash_lock, iface, links>>
    /\ UNCHANGED <<environ, fs, ucs_config_file_vars,
                   ucs_config_parser_env_vars, config_file_parse, loaded,
                   opts, frame, hist>>

CloneTable(t, fail) ==
    /\ last.op = "none"
    /\ \E c \in {ucs_config_parser_clone_opts(
                     TableDefaults(t), Cloning(RawOpts, fail), 0, t)} :
          last' = [NoCall EXCEPT !.op = "clone_table", !.name = t,
                                 !.pre = TableDefaults(t),
                                 !.value = fail, !.status = c.status,
                                 !.out = c.mem]
    /\ UNCHANGED <<ucs_config_parser_env_vars_hash_lock, iface, links>>
    /\ UNCHANGED <<environ, fs, ucs_config_file_vars,
                   ucs_config_parser_env_vars, config_file_parse, loaded,
                   opts, frame, hist>>

\* the declared keys of the key-value field, and a name that is not declared
KvKeys == << <<"x">>, <<"y">>, <<"w">> >>

KvNames == {<<"x">>, <<"y">>, <<"w">>, <<"z">>}

KvValues == {<<"1">>, <<"2">>, <<"q">>}

\* key:value items and bare values
KvItems == [key : KvNames \cup {NULL}, value : KvValues]

KvTexts == UNION {[1..k -> KvItems] : k \in 1..3}

KvItemText(it) ==
    IF it.key = NULL THEN it.value ELSE it.key \o <<":">> \o it.value

RECURSIVE KvJoin(_)
KvJoin(items) ==
    IF Len(items) = 1 THEN KvItemText(items[1])
    ELSE KvItemText(items[1]) \o <<",">> \o KvJoin(Tail(items))

\* the read of a key-value field into a destination that holds no value
ReadKeyValue(items, parser) ==
    /\ last.op = "none"
    /\ \E r \in {ucs_config_sscanf_key_value(
                     KvJoin(items), RawKeyValue(KvKeys),
                     [keys |-> KvKeys, parser |-> parser])} :
          last' = [NoCall EXCEPT !.op = "sscanf_key_value", !.pre = items,
                                 !.name = parser, !.value = KvJoin(items),
                                 !.out = r]
    /\ UNCHANGED <<ucs_config_parser_env_vars_hash_lock, iface, links>>
    /\ UNCHANGED <<environ, fs, ucs_config_file_vars,
                   ucs_config_parser_env_vars, config_file_parse, loaded,
                   opts, frame, hist>>

\* the texts of an allow-list: up to three of the tokens, negated or not
AllowTokens == {UCS_CONFIG_PARSER_ALL, <<"a">>, <<"a","l">>}

AllowLists == UNION {[1..k -> AllowTokens] : k \in 0..3}

AllowText(toks, neg) ==
    (IF neg THEN <<ucs_config_parser_negate>> ELSE <<>>) \o
    ucs_config_sprintf_array(toks)

ReadAllowList(toks, neg) ==
    /\ last.op = "none"
    /\ last' = [NoCall EXCEPT
                   !.op = "sscanf_allow_list", !.pre = toks,
                   !.ignore_errors = neg, !.value = AllowText(toks, neg),
                   !.out = ucs_config_sscanf_allow_list(
                               AllowText(toks, neg), 0)]
    /\ UNCHANGED <<ucs_config_parser_env_vars_hash_lock, iface, links>>
    /\ UNCHANGED <<environ, fs, ucs_config_file_vars,
                   ucs_config_parser_env_vars, config_file_parse, loaded,
                   opts, frame, hist>>

\* the release of the field a read has written, whatever the read returned
ReleaseAllowList ==
    /\ last.op = "sscanf_allow_list"
    /\ last' = [last EXCEPT
                   !.op = "release_allow_list",
                   !.out.v = ucs_config_release_allow_list(last.out.v)]
    /\ UNCHANGED <<ucs_config_parser_env_vars_hash_lock, iface, links>>
    /\ UNCHANGED <<environ, fs, ucs_config_file_vars,
                   ucs_config_parser_env_vars, config_file_parse, loaded,
                   opts, frame, hist>>

DefaultTables ==
    {"ctx", "ud_mlx5", "names", "ud", "ib", "udc", "test_order", "test_alias",
     "test_bad", "test_nest"}

\* set_default_values on the struct of table t, as fill_opts calls it
SetDefaults(t) ==
    /\ last.op = "none"
    /\ \E m \in {ucs_config_parser_set_default_values(
                     Machine(RawOpts, {}, EmptyMap, EmptyMap), 0, t)} :
          last' = [NoCall EXCEPT !.op = "set_default_values", !.name = t,
                                 !.status = m.status, !.out = m.mem,
                                 !.leak = m.leak, !.dfree = m.dfree]
    /\ UNCHANGED <<ucs_config_parser_env_vars_hash_lock, iface, links>>
    /\ UNCHANGED <<environ, fs, ucs_config_file_vars,
                   ucs_config_parser_env_vars, config_file_parse, loaded,
                   opts, frame, hist>>

PrintTables == {"ctx", "ud_mlx5", "test_order", "test_alias", "test_nest"}

PrintTablePrefixes == {NULL, <<>>, s_UD_, s_C_}

\* print_opts on the struct of table t as set_default_values left it
PrintTable(t, table_prefix, flags) ==
    /\ last.op = "none"
    /\ last' = [NoCall EXCEPT
                   !.op = "print_opts", !.name = t, !.prefix = table_prefix,
                   !.flags = flags,
                   !.out = ucs_config_parser_print_opts(
                               Machine(TableDefaults(t), {}, EmptyMap,
                                       EmptyMap),
                               0, t, table_prefix, s_UCX_, flags, NULL)]
    /\ UNCHANGED <<ucs_config_parser_env_vars_hash_lock, iface, links>>
    /\ UNCHANGED <<environ, fs, ucs_config_file_vars,
                   ucs_config_parser_env_vars, config_file_parse, loaded,
                   opts, frame, hist>>

NextComp ==
    \/ \E src \in CloneArrays, fail \in 0..MaxAllocs : CloneArray(src, fail)
    \/ \E src \in CloneMaps, fail \in 0..MaxAllocs : CloneKeyValue(src, fail)
    \/ \E t \in CloneTables, fail \in 0..MaxAllocs : CloneTable(t, fail)
    \/ \E items \in KvTexts, parser \in {"uint", "string"} :
           ReadKeyValue(items, parser)
    \/ \E toks \in AllowLists, neg \in BOOLEAN : ReadAllowList(toks, neg)
    \/ \E t \in DefaultTables : SetDefaults(t)
    \/ \E t \in PrintTables, table_prefix \in PrintTablePrefixes :
          \E flags \in PrintFlags : PrintTable(t, table_prefix, flags)
    \/ ReleaseAllowList

SpecComp == InitComp /\ [][NextComp]_vars

CloneOps == {"clone_array", "clone_key_value", "clone_table"}

\* the blocks of the destination of the recorded clone that are live: 0 is
\* the block of an array, the others are numbered from 1
LiveInClone ==
    IF last.op = "clone_array"
    THEN (IF last.out.data THEN {0} ELSE {}) \cup
         {i \in DOMAIN last.out.elems : last.out.elems[i].live}
    ELSE {i + 1 : i \in {j \in DOMAIN last.out : last.out[j].live}}

\* the elements, keys or fields of the source that own a block
HeapInSource ==
    IF last.op = "clone_array" THEN DOMAIN last.pre.elems
    ELSE {i + 1 : i \in {j \in DOMAIN last.pre : last.pre[j].live}}

\* C22 as stated: a clone that returned NoMemory leaves no live allocation
\* in the destination.
C22_NoLiveAfterFailure ==
    (last.op \in CloneOps /\ last.status = UCS_ERR_NO_MEMORY) =>
        LiveInClone = {}

\* C22, what the code does: a clone returns NoMemory exactly when one of
\* the allocations it requests fails, and it returns at once; of the
\* destination only the block of an array is released, and the blocks of
\* the elements, keys or fields cloned before the failure all stay live.
C22_EarlierBlocksStayLive ==
    last.op \in CloneOps =>
        /\ last.status \in {UCS_OK, UCS_ERR_NO_MEMORY}
        /\ last.status = UCS_OK =>
               /\ last.op # "clone_array" => LiveInClone = HeapInSource
               /\ last.op = "clone_array" =>
                      LiveInClone = HeapInSource \cup
                                    (IF last.pre.data THEN {0} ELSE {})
        /\ last.status = UCS_ERR_NO_MEMORY =>
               /\ 0 \notin LiveInClone
               /\ Cardinality(LiveInClone) =
                      last.value - (IF last.op = "clone_array" THEN 2 ELSE 1)
                      + (IF last.op = "clone_array" /\ last.value = 1
                         THEN 1 ELSE 0)

\* the clone of an array failed at its third element
C22_Witness ==
    /\ last.op = "clone_array"
    /\ last.status = UCS_ERR_NO_MEMORY
    /\ last.pre.count = 3
    /\ last.value = 4

\* the text key idx is read from: the value of its last item, else the last
\* bare value, else NULL
KvTextOf(items, idx) ==
    IF \E i \in 1..Len(items) : items[i].key = KvKeys[idx]
    THEN items[Max({i \in 1..Len(items) : items[i].key = KvKeys[idx]})].value
    ELSE IF \E i \in 1..Len(items) : items[i].key = NULL
    THEN items[Max({i \in 1..Len(items) : items[i].key = NULL})].value
    ELSE NULL

KvGood(items, parser, idx) ==
    /\ KvTextOf(items, idx) # NULL
    /\ parser = "uint" =>
          ucs_config_sscanf_uint(KvTextOf(items, idx), RawSlot).ret = 1

KvBad(items, parser) ==
    {idx \in 1..Len(KvKeys) : ~KvGood(items, parser, idx)}

Min(S) == CHOOSE x \in S : \A y \in S : x <= y

\* C23: a key-value read fails without touching the destination when an
\* item names an undeclared key; otherwise each key is read from its own
\* last item, else from the last bare value, whatever the order of the
\* items; when some key has no text or its text does not parse, the read
\* fails and exactly the keys in front of the first such key have been
\* released, each once.
C23_KeyValueRead ==
    last.op = "sscanf_key_value" =>
       IF \E i \in 1..Len(last.pre) :
             last.pre[i].key \notin {NULL} \cup {KvKeys[k] : k \in 1..Len(KvKeys)}
       THEN last.out = [ret |-> 0, dest |-> RawKeyValue(KvKeys)]
       ELSE IF KvBad(last.pre, last.name) = {}
       THEN /\ last.out.ret = 1
            /\ \A idx \in 1..Len(KvKeys) :
                  /\ last.out.dest.released[idx] = 0
                  /\ last.out.dest.mem[idx].init
                  /\ last.name = "uint" =>
                        last.out.dest.mem[idx].n =
                           sscanf_u(KvTextOf(last.pre, idx)).n
                  /\ last.name = "string" =>
                        /\ last.out.dest.mem[idx].s = KvTextOf(last.pre, idx)
                        /\ last.out.dest.mem[idx].live
       ELSE /\ last.out.ret = 0
            /\ \A idx \in 1..Len(KvKeys) :
                  /\ last.out.dest.released[idx] =
                        IF idx < Min(KvBad(last.pre, last.name)) THEN 1 ELSE 0
                  /\ ~last.out.dest.mem[idx].live
                  /\ idx >= Min(KvBad(last.pre, last.name)) =>
                        last.out.dest.mem[idx] = RawSlot

\* a read of three items in which the third key has a text that does not
\* parse: the two keys in front of it were parsed and released
C23_Witness ==
    /\ last.op = "sscanf_key_value"
    /\ last.name = "uint"
    /\ Len(last.pre) = 3
    /\ last.out.ret = 0
    /\ KvBad(last.pre, last.name) = {3}
    /\ last.out.dest.mem[1].init /\ last.out.dest.mem[2].init
    /\ last.out.dest.released = <<1, 1, 0>>

\* C24: an allow-list read yields NEGATE after a leading `^` and ALLOW
\* without it; when the first token is `all` the mode is ALLOW_ALL, whether
\* negated or not, and the read succeeds, with an empty array, only if
\* `all` is the sole token; after the read, successful or not, and the
\* release, the block of the token array has been freed exactly once.
C24_AllowListRead ==
    /\ last.op \in {"sscanf_allow_list", "release_allow_list"} =>
          IF last.pre # <<>> /\ last.pre[1] = UCS_CONFIG_PARSER_ALL
          THEN /\ last.out.v.mode = UCS_CONFIG_ALLOW_LIST_ALLOW_ALL
               /\ last.out.ret = 1 <=> Len(last.pre) = 1
               /\ last.out.ret = 1 => last.out.v.array = <<>>
          ELSE /\ last.out.ret = 1
               /\ last.out.v.mode = IF last.ignore_errors
                                    THEN UCS_CONFIG_ALLOW_LIST_NEGATE
                                    ELSE UCS_CONFIG_ALLOW_LIST_ALLOW
               /\ last.out.v.array = last.pre
    /\ last.op = "release_allow_list" =>
          /\ last.out.v.frees = 1
          /\ ~last.out.v.data
          /\ ~last.out.v.dfree

\* the field read from `^all` has been released
C24_Witness ==
    /\ last.op = "release_allow_list"
    /\ last.value = <<"^", "a", "l", "l">>
    /\ last.out.ret = 1
    /\ last.out.v.mode = UCS_CONFIG_ALLOW_LIST_ALLOW_ALL
    /\ last.out.v.frees = 1

\* the name=value tokens of the default texts of the table fields under
\* table t, in the order they are applied: those of a sub-table before
\* those of the table field that holds it
RECURSIVE TokensApplied(_, _, _)
TokensApplied(t, base, i) ==
    IF i > Len(Table(t)) THEN <<>>
    ELSE LET f == Table(t)[i]
             toks == strtok(f.dfl_value, ";")
         IN (IF f.parser = "table" /\ f.dfl_value # NULL
             THEN TokensApplied(f.sub, base + f.offset, 1) \o
                  [k \in 1..Len(toks) |->
                      [sub |-> f.sub, base |-> base + f.offset,
                       name |-> strtok(toks[k], "=")[1],
                       value |-> strtok(toks[k], "=")[2]]]
             ELSE <<>>) \o TokensApplied(t, base, i + 1)

\* the names a token may give to a leaf of the sub-table it is applied to:
\* the field name, qualified by the name of a table on the path to it
TokenNames(l) ==
    IF l.tps = {} THEN {l.field.name}
    ELSE {tp \o l.field.name : tp \in l.tps}

\* the token names a field, or an alias of a field, that lives in the slot
NamesSlot(tok, slot) ==
    \E l \in LeafPaths(tok.sub, tok.base, {}, 1) :
       /\ l.slot = slot
       /\ l.field.offset # UCS_CONFIG_DEPRECATED_FIELD_OFFSET
       /\ \E n \in TokenNames(l) : fnmatch0(tok.name, n)

\* the text the slot of leaf l holds after the defaults of table t are set
DefaultTextOf(t, l) ==
    LET toks == TokensApplied(t, 0, 1)
        hits == {k \in 1..Len(toks) : NamesSlot(toks[k], l.slot)}
    IN IF hits = {} THEN l.field.dfl_value ELSE toks[Max(hits)].value

TableLeaves(t) == {l \in LeafPaths(t, 0, {}, 1) : IsReal(l)}

\* C25: after set_default_values returned OK every real leaf holds the
\* parse of its own default text, unless tokens of the default text of a
\* table field above it name it: then it holds the parse of the value of
\* the last such token, the tokens of an inner table being applied before
\* those of an outer one; the default of an alias is never parsed.
C25_DefaultsLayered ==
    (last.op = "set_default_values" /\ last.status = UCS_OK) =>
        \A l \in TableLeaves(last.name) :
           Val(last.out[l.slot]) =
              Parsed(l.field, DefaultTextOf(last.name, l))

\* the defaults of a table whose table field sets a field twice and a field
\* of a nested table once
C25_Witness ==
    /\ last.op = "set_default_values"
    /\ last.status = UCS_OK
    /\ last.name = "test_order"
    /\ \E l \in TableLeaves(last.name) :
          /\ l.field.name = s_BACKOFF
          /\ DefaultTextOf(last.name, l) = <<"2", ".", "5">>
          /\ Val(last.out[l.slot]) # Parsed(l.field, l.field.dfl_value)

\* the table fields that a traversal of table t enters
RECURSIVE TableFields(_, _)
TableFields(t, i) ==
    IF i > Len(Table(t)) THEN 0
    ELSE (IF Table(t)[i].parser = "table"
          THEN 1 + TableFields(Table(t)[i].sub, 1) ELSE 0)
         + TableFields(t, i + 1)

NoAdjacentEqual(list) == \A k \in 1..(Len(list) - 1) : list[k] # list[k + 1]

\* C26: during a print_opts that runs to its end the prefix list never
\* holds two adjacent equal prefixes; each step either adds a prefix at the
\* tail or removes the tail added last; a sub-table whose prefix equals the
\* tail adds and removes nothing; and at the end the list holds the root
\* table prefix alone.
C26_PrefixStack ==
    (/\ last.op = "print_opts"
     /\ UCS_CONFIG_PRINT_CONFIG \in last.flags
     /\ ~last.out.fatal) =>
        /\ \A k \in 1..Len(last.out.steps) :
              /\ NoAdjacentEqual(last.out.steps[k])
              /\ last.out.steps[k] # <<>>
              /\ last.out.steps[k][1] = last.out.steps[1][1]
        /\ \A k \in 2..Len(last.out.steps) :
              \/ /\ Len(last.out.steps[k]) = Len(last.out.steps[k - 1]) + 1
                 /\ SubSeq(last.out.steps[k], 1, Len(last.out.steps[k - 1]))
                       = last.out.steps[k - 1]
              \/ /\ Len(last.out.steps[k - 1]) = Len(last.out.steps[k]) + 1
                 /\ SubSeq(last.out.steps[k - 1], 1, Len(last.out.steps[k]))
                       = last.out.steps[k]
        /\ Len(last.out.steps) =
              1 + 2 * (TableFields(last.name, 1) - last.out.skipped)
        /\ last.out.list =
              <<IF last.prefix = NULL THEN <<>> ELSE last.prefix>>
        /\ last.out.steps[Len(last.out.steps)] = last.out.list

\* the traversal of the UD mlx5 table under the root prefix UD_: its UD_
\* sub-tables add nothing, the IB_ sub-tables are added and removed
C26_Witness ==
    /\ last.op = "print_opts"
    /\ last.name = "ud_mlx5"
    /\ last.prefix = s_UD_
    /\ UCS_CONFIG_PRINT_CONFIG \in last.flags
    /\ ~last.out.fatal
    /\ last.out.skipped = 2
    /\ Len(last.out.steps) = 5
    /\ last.out.list = <<s_UD_>>

\* the call stopped before its end: the text did not parse for a matched
\* field, or a deprecated field was matched
SetValueStopped ==
    /\ last.op = "set_value"
    /\ \/ last.status = UCS_ERR_INVALID_PARAM
       \/ /\ last.status = UCS_ERR_NO_ELEM
          /\ MatchedDeprecated(last.entry, last.prefix, last.name) # {}

\* C27: when set_value stops on a field whose text does not parse or on a
\* deprecated match, the fields replaced before keep the new value and every
\* other field, the failing one included, holds the value it held before
\* the call.
C27_EarlierKeptOthersOld ==
    SetValueStopped =>
        /\ \A l \in MatchedFields(last.entry, last.prefix, last.name) :
              l.slot \in last.replaced =>
                 Val(opts.mem[l.slot]) = Parsed(l.field, last.value)
        /\ \A s \in OptsSlots \ last.replaced :
              Val(opts.mem[s]) = Val(last.pre[s])

\* C27, what the code does: the fields replaced before keep the new value;
\* every other slot holds the value it held before the call or, the failing
\* field, the parse of the text its old value is written as.
C27_FailingFieldReparsed ==
    SetValueStopped =>
        /\ \A l \in MatchedFields(last.entry, last.prefix, last.name) :
              l.slot \in last.replaced =>
                 Val(opts.mem[l.slot]) = Parsed(l.field, last.value)
        /\ \A s \in OptsSlots \ last.replaced :
              \/ Val(opts.mem[s]) = Val(last.pre[s])
              \/ \E l \in MatchedFields(last.entry, last.prefix, last.name) :
                    /\ l.slot = s
                    /\ ~Parses(l.field, last.value)
                    /\ Val(opts.mem[s]) =
                          Parsed(l.field, parser_write(l.field, last.pre[s]))

\* a call that replaced a field and then stopped
C27_Witness ==
    /\ SetValueStopped
    /\ last.replaced # {}
    /\ \E s \in OptsSlots \ last.replaced : opts.mem[s].init

(***************************************************************************)
(* The receive path of the UD mlx5 interface.                              *)
(***************************************************************************)
\* the loop of post_recv: a descriptor is taken from the memory pool and
\* written to the ring at pi, until count reaches batch or the pool is empty
\* (UCT_TL_IFACE_GET_RX_DESC breaks out of the loop)
RECURSIVE post_recv_loop(_, _, _, _)
post_recv_loop(i, batch, pi, count) ==
    IF count < batch /\ i.super_rx.mp # <<>>
    THEN Strict([i EXCEPT !.rx_wq.wqes[pi] = Head(i.super_rx.mp),
                          !.super_rx.mp = Tail(@)],
                LAMBDA j : post_recv_loop(j, batch,
                               (pi + 1) % (i.rx_wq.mask + 1),
                               (count + 1) % UINT16))
    ELSE [iface |-> i, count |-> count]

\* a post_recv that lowers rx.available by the whole batch
post_recv_commit_batch(i, count) ==
    [i EXCEPT !.rx_wq.rq_wqe_counter = (@ + count) % UINT16,
              !.super_rx.available = @ - i.config.rx_max_batch,
              !.rx_wq.dbrec = htonl((i.rx_wq.rq_wqe_counter + count) % UINT16)]

\* the end of post_recv: nothing when count is 0, else the producer counter,
\* rx.available and the doorbell record
post_recv_commit(i, count) ==
    IF count = 0
    THEN i
    ELSE [i EXCEPT !.rx_wq.rq_wqe_counter = (@ + count) % UINT16,
                   !.super_rx.available = @ - count,
                   !.rx_wq.dbrec =
                       htonl((i.rx_wq.rq_wqe_counter + count) % UINT16)]

uct_ud_mlx5_iface_post_recv(i) ==
    Bind(post_recv_loop(i, i.config.rx_max_batch,
                        i.rx_wq.rq_wqe_counter % (i.rx_wq.mask + 1), 0),
         LAMBDA r : post_recv_commit(r.iface, r.count))

\* poll_rx up to the label out: no completion, or one completion taken,
\* rx.available and the consumer counter raised, and the descriptor put
\* back to the pool (put) or handed to uct_ud_ep_process_rx
poll_rx_completion(i, put) ==
    IF i.cq_rx = <<>>
    THEN [iface |-> i, count |-> 0]
    ELSE [iface |->
            [i EXCEPT !.cq_rx = Tail(@),
                      !.super_rx.available = @ + 1,
                      !.rx_wq.cq_wqe_counter = (@ + 1) % UINT16,
                      !.super_rx.mp =
                          IF put
                          THEN <<i.rx_wq.wqes[i.rx_wq.cq_wqe_counter %
                                              (i.rx_wq.mask + 1)]>> \o @
                          ELSE @],
          count |-> 1]

\* after the label out: buffers are posted when a batch is available
poll_rx_out(i) ==
    IF i.super_rx.available >= i.config.rx_max_batch
    THEN uct_ud_mlx5_iface_post_recv(i)
    ELSE i

\* the length of the receive queue, a power of two
RxQueueLog == 2

RxQueueLen == 2 ^ RxQueueLog

\* the descriptors of the memory pool
MaxDescs == 5

\* the largest rx_max_batch
MaxBatch == 3

\* the interface when the constructor reaches the loop that posts buffers
NewIface(batch, ndesc) ==
    [NoIface EXCEPT !.pc = "init",
                    !.config.rx_max_batch = batch,
                    !.super_rx.available = RxQueueLen,
                    !.super_rx.mp = [d \in 1..ndesc |-> d],
                    !.rx_wq.mask = RxQueueLen - 1,
                    !.rx_wq.wqes = [k \in 0..(RxQueueLen - 1) |-> 0]]

\* both counters of a queue after this many completions
Shifted(i, base) ==
    [i EXCEPT !.rx_wq.rq_wqe_counter = (@ + base) % UINT16,
              !.rx_wq.cq_wqe_counter = (@ + base) % UINT16,
              !.rx_wq.dbrec = htonl((i.rx_wq.rq_wqe_counter + base) % UINT16)]

\* a new interface, or one whose queue has been round many times
InitUd ==
    /\ environ = EmptyMap
    /\ fs = FileSystem(<<NoFile, NoFile>>)
    /\ ucs_config_file_vars = EmptyMap
    /\ ucs_config_parser_env_vars = {}
    /\ config_file_parse = UCS_INIT_ONCE_INITIALIZER
    /\ loaded = {}
    /\ opts = [mem |-> RawOpts, entry |-> 0, filled |-> FALSE]
    /\ last = NoCall
    /\ frame = [t \in Threads |-> IdleFrame]
    /\ hist = NoHist
    /\ ucs_config_parser_env_vars_hash_lock = 0
    /\ links = NoLinks
    /\ \E batch \in 1..MaxBatch, ndesc \in 1..MaxDescs :
       \E base \in {0, UINT16 - RxQueueLen} :
          iface = Shifted(NewIface(batch, ndesc), base)

UdUnchanged ==
    UNCHANGED <<environ, fs, ucs_config_file_vars, ucs_config_parser_env_vars,
                config_file_parse, loaded, opts, frame,
                ucs_config_parser_env_vars_hash_lock, links>>

\* at most this many receives are completed by the device
MaxCompletions == 6

\* the constructor: while (rx.available >= rx_max_batch) post_recv
IfaceInitPost ==
    /\ iface.pc = "init"
    /\ iface.super_rx.available >= iface.config.rx_max_batch
    /\ iface' = uct_ud_mlx5_iface_post_recv(iface)
    /\ last' = [NoCall EXCEPT !.op = "post_recv", !.pre = iface,
                              !.out = iface]
    /\ UNCHANGED hist
    /\ UdUnchanged

IfaceInitDone ==
    /\ iface.pc = "init"
    /\ iface.super_rx.available < iface.config.rx_max_batch
    /\ iface' = [iface EXCEPT !.pc = "ready"]
    /\ last' = [NoCall EXCEPT !.op = "init_done"]
    /\ UNCHANGED hist
    /\ UdUnchanged

\* the device completes the oldest posted receive
Completion ==
    /\ iface.pc \in {"init", "ready"}
    /\ hist.calls < MaxCompletions
    /\ (iface.rx_wq.rq_wqe_counter - iface.rx_wq.cq_wqe_counter
          - Len(iface.cq_rx)) % UINT16 > 0
    /\ iface' = [iface EXCEPT !.cq_rx =
                     Append(@, (iface.rx_wq.cq_wqe_counter + Len(@)) % UINT16)]
    /\ last' = [NoCall EXCEPT !.op = "completion"]
    /\ hist' = [hist EXCEPT !.calls = @ + 1]
    /\ UdUnchanged

\* uct_ud_mlx5_iface_poll_rx
PollRx(put) ==
    /\ iface.pc = "ready"
    /\ \E r \in {poll_rx_completion(iface, put)} :
          /\ iface' = poll_rx_out(r.iface)
          /\ last' = [NoCall EXCEPT !.op = "poll_rx", !.pre = iface,
                                    !.out = r.iface, !.value = r.count]
    /\ UNCHANGED hist
    /\ UdUnchanged

NextUd ==
    \/ IfaceInitPost
    \/ IfaceInitDone
    \/ Completion
    \/ \E put \in BOOLEAN : PollRx(put)

SpecUd == InitUd /\ [][NextUd]_vars

\* rx.available + (rq_wqe_counter - cq_wqe_counter), modulo 2^16
RxQuantity(i) ==
    (i.super_rx.available + i.rx_wq.rq_wqe_counter
       - i.rx_wq.cq_wqe_counter) % UINT16

\* the descriptors taken from the memory pool between a and b
RxPosted(a, b) == Len(a.super_rx.mp) - Len(b.super_rx.mp)

\* from a to b one post_recv has run
RxPostStep(a, b) ==
    /\ RxPosted(a, b) \in 0..a.config.rx_max_batch
    /\ b.super_rx.available = a.super_rx.available - RxPosted(a, b)
    /\ b.rx_wq.rq_wqe_counter =
          (a.rx_wq.rq_wqe_counter + RxPosted(a, b)) % UINT16
    /\ ntohl(b.rx_wq.dbrec) = (ntohl(a.rx_wq.dbrec) + RxPosted(a, b)) % UINT16
    /\ b.rx_wq.cq_wqe_counter = a.rx_wq.cq_wqe_counter
    /\ RxPosted(a, b) = 0 => b = a

\* C29: rx.available + (rq_wqe_counter - cq_wqe_counter) modulo 2^16 keeps
\* the value it had at construction; post_recv lowers rx.available by the
\* number of descriptors it posted, at most rx_max_batch, and advances
\* rq_wqe_counter and the doorbell record by that number, changing nothing
\* when it obtained no descriptor; a polled completion raises rx.available
\* and cq_wqe_counter by one.
C29_RxConserved ==
    /\ iface.pc # "none" => RxQuantity(iface) = RxQueueLen
    /\ last.op = "post_recv" => RxPostStep(last.pre, iface)
    /\ last.op = "poll_rx" =>
          /\ last.value = 0 => last.out = last.pre
          /\ last.value = 1 =>
                /\ last.out.super_rx.available =
                      last.pre.super_rx.available + 1
                /\ last.out.rx_wq.cq_wqe_counter =
                      (last.pre.rx_wq.cq_wqe_counter + 1) % UINT16
                /\ last.out.rx_wq.rq_wqe_counter =
                      last.pre.rx_wq.rq_wqe_counter
                /\ last.out.rx_wq.dbrec = last.pre.rx_wq.dbrec
          /\ IF last.out.super_rx.available >= last.out.config.rx_max_batch
             THEN RxPostStep(last.out, iface)
             ELSE iface = last.out

\* a poll took a completion and posted part of a batch, the pool running
\* out, and the producer counter wrapped to a smaller value
C29_Witness ==
    /\ last.op = "poll_rx"
    /\ last.value = 1
    /\ RxPosted(last.out, iface) > 0
    /\ RxPosted(last.out, iface) < iface.config.rx_max_batch
    /\ iface.rx_wq.rq_wqe_counter < last.pre.rx_wq.rq_wqe_counter
    /\ iface.rx_wq.cq_wqe_counter # 0

(***************************************************************************)
(* The circular list of list.h.  links maps the address of a link that has *)
(* been written to its prev and next pointers; address 0 is the list head, *)
(* the others are elements.  A link never written is outside the domain.   *)
(***************************************************************************)
\* ucs_list_head_init
ucs_list_head_init(l, head) ==
    [e \in DOMAIN l \cup {head} |->
        IF e = head THEN [prev |-> head, next |-> head] ELSE l[e]]

\* an insertion that does not write next->prev
list_insert_replace_forward(l, prev, next, elem) ==
    [e \in DOMAIN l \cup {elem} |->
        IF e = elem THEN [prev |-> prev, next |-> next]
        ELSE IF e = prev THEN [l[e] EXCEPT !.next = elem]
        ELSE l[e]]

\* the four stores of ucs_list_insert_replace, in the order of the code
ucs_list_insert_replace(l, prev, next, elem) ==
    Bind([e \in DOMAIN l \cup {elem} |->
            IF e = elem THEN [prev |-> prev, next |-> next] ELSE l[e]],
         LAMBDA l1 : Bind([l1 EXCEPT ![prev].next = elem],
         LAMBDA l2 : [l2 EXCEPT ![next].prev = elem]))

ucs_list_insert_after(l, pos, new_link) ==
    ucs_list_insert_replace(l, pos, l[pos].next, new_link)

ucs_list_insert_before(l, pos, new_link) ==
    ucs_list_insert_replace(l, l[pos].prev, pos, new_link)

\* elem->prev->next = elem->next, then elem->next->prev = elem->prev, the
\* second store reading the pointers after the first
ucs_list_del(l, elem) ==
    Bind([l EXCEPT ![l[elem].prev].next = l[elem].next],
         LAMBDA l1 : [l1 EXCEPT ![l1[elem].next].prev = l1[elem].prev])

ucs_list_is_empty(l, head) == l[head].next = head

ucs_list_add_head(l, head, item) == ucs_list_insert_after(l, head, item)

ucs_list_add_tail(l, head, item) == ucs_list_insert_before(l, head, item)

\* the links of the model besides the head
MaxLinks == 3

\* the loop of ucs_list_length, the links passed in their order; the walk
\* is abandoned after more steps than there are links
RECURSIVE list_walk(_, _, _, _)
list_walk(l, head, ptr, seen) ==
    IF ptr = head \/ Len(seen) > MaxLinks + 1
    THEN seen
    ELSE list_walk(l, head, l[ptr].next, Append(seen, ptr))

ucs_list_length(l, head) == Len(list_walk(l, head, l[head].next, <<>>))

\* at most this many insertions are made
MaxInserts == 5

\* insertions and deletions made, and the elements that are linked
NoListHist == [inserted |-> 0, deleted |-> 0, linked |-> {}]

InitList ==
    /\ environ = EmptyMap
    /\ fs = FileSystem(<<NoFile, NoFile>>)
    /\ ucs_config_file_vars = EmptyMap
    /\ ucs_config_parser_env_vars = {}
    /\ config_file_parse = UCS_INIT_ONCE_INITIALIZER
    /\ loaded = {}
    /\ opts = [mem |-> RawOpts, entry |-> 0, filled |-> FALSE]
    /\ last = NoCall
    /\ frame = [t \in Threads |-> IdleFrame]
    /\ hist = NoListHist
    /\ ucs_config_parser_env_vars_hash_lock = 0
    /\ iface = NoIface
    /\ links = ucs_list_head_init(NoLinks, 0)

ListUnchanged ==
    UNCHANGED <<environ, fs, ucs_config_file_vars, ucs_config_parser_env_vars,
                config_file_parse, loaded, opts, frame,
                ucs_config_parser_env_vars_hash_lock, iface>>

\* an insertion of the unlinked element elem has been made
ListInserted(op, pos, elem) ==
    /\ last' = [NoCall EXCEPT !.op = op, !.pre = links, !.name = elem,
                              !.value = pos]
    /\ hist' = [hist EXCEPT !.inserted = @ + 1, !.linked = @ \cup {elem}]
    /\ ListUnchanged

ListAddHead(elem) ==
    /\ hist.inserted < MaxInserts
    /\ elem \notin hist.linked
    /\ links' = ucs_list_add_head(links, 0, elem)
    /\ ListInserted("add_head", 0, elem)

ListAddTail(elem) ==
    /\ hist.inserted < MaxInserts
    /\ elem \notin hist.linked
    /\ links' = ucs_list_add_tail(links, 0, elem)
    /\ ListInserted("add_tail", 0, elem)

ListInsertBefore(pos, elem) ==
    /\ hist.inserted < MaxInserts
    /\ elem \notin hist.linked
    /\ pos \in hist.linked \cup {0}
    /\ links' = ucs_list_insert_before(links, pos, elem)
    /\ ListInserted("insert_before", pos, elem)

ListInsertAfter(pos, elem) ==
    /\ hist.inserted < MaxInserts
    /\ elem \notin hist.linked
    /\ pos \in hist.linked \cup {0}
    /\ links' = ucs_list_insert_after(links, pos, elem)
    /\ ListInserted("insert_after", pos, elem)

ListDel(elem) ==
    /\ elem \in hist.linked
    /\ links' = ucs_list_del(links, elem)
    /\ last' = [NoCall EXCEPT !.op = "del", !.pre = links, !.name = elem]
    /\ hist' = [hist EXCEPT !.deleted = @ + 1, !.linked = @ \ {elem}]
    /\ ListUnchanged

NextList ==
    \/ \E elem \in 1..MaxLinks : ListAddHead(elem)
    \/ \E elem \in 1..MaxLinks : ListAddTail(elem)
    \/ \E pos \in 0..MaxLinks, elem \in 1..MaxLinks : ListInsertBefore(pos, elem)
    \/ \E pos \in 0..MaxLinks, elem \in 1..MaxLinks : ListInsertAfter(pos, elem)
    \/ \E elem \in 1..MaxLinks : ListDel(elem)

SpecList == InitList /\ [][NextList]_vars

\* the elements of the list from first to last
ListOrder(l) == list_walk(l, 0, l[0].next, <<>>)

\* the head and the links reached from it
ListReach(l) == {0} \cup {ListOrder(l)[k] : k \in 1..Len(ListOrder(l))}

\* C30: the list is a well-formed circle through the head and the linked
\* elements, ucs_list_length is the number of insertions less the number of
\* deletions, ucs_list_is_empty holds exactly when that number is 0,
\* add_tail leaves its element last and add_head leaves it first, the
\* other elements in the order they had.
C30_WellFormedCircle ==
    /\ \A e \in ListReach(links) :
          /\ links[links[e].next].prev = e
          /\ links[links[e].prev].next = e
    /\ ListReach(links) = {0} \cup hist.linked
    /\ ucs_list_length(links, 0) = hist.inserted - hist.deleted
    /\ ucs_list_is_empty(links, 0) <=> hist.inserted - hist.deleted = 0
    /\ last.op = "add_tail" =>
          ListOrder(links) = Append(ListOrder(last.pre), last.name)
    /\ last.op = "add_head" =>
          ListOrder(links) = <<last.name>> \o ListOrder(last.pre)

\* an element deleted earlier was added again at the tail of a list of two
C30_Witness ==
    /\ last.op = "add_tail"
    /\ last.name \in DOMAIN last.pre
    /\ Len(ListOrder(links)) = 3
    /\ hist.deleted > 0
    /\ links[0].prev = last.name

====
